---------------------------- MODULE Spec2Model ----------------------------
(***************************************************************************)
(* State-machine model of the NewZoneCore facade (src/src/core.ts), its    *)
(* chain state manager (src/src/chain/state.ts), the logical clock         *)
(* (identity/logical-time.ts, src/unnamed/part_015), the fork detector,    *)
(* the document builder and the zeroization primitive.                     *)
(*                                                                         *)
(* An optional reference (a JavaScript null) is a sequence of length 0, a  *)
(* present one a sequence of length 1.  A hash is the tuple of its inputs  *)
(* (an ideal, collision-free hash); the all-zero parent hash is <<>>.      *)
(***************************************************************************)
EXTENDS Integers, Sequences, FiniteSets, TLC

(***************************************************************************)
(* Bounds of the model.                                                    *)
(***************************************************************************)
\* Stands in for LOGICAL_TIME.MAX = Number.MAX_SAFE_INTEGER, which is beyond
\* the integers TLC computes with: tick() refuses to go past it.
MaxTime == 5
\* Largest options.initialTime a facade is constructed with.
MaxInitialTime == 1
\* createDocument calls that may be suspended at an await at the same time.
MaxPending == 2
\* Successful importState calls in one run.
MaxImports == 1
\* Documents in the chain of a state blob that another facade exported.
MaxSeqDocs == 1

(***************************************************************************)
(* Program constants.                                                      *)
(***************************************************************************)
PRIVATE_KEY_LENGTH == 32
SIGNATURE_LENGTH == 64
ZEROIZE_PASSES == 3
LOGICAL_TIME_MIN == 1
CRYPTO_SUITE == "nzcore-crypto-01"
DOCUMENT_VERSION == "1.0"

Null == <<>>
Some(x) == <<x>>
Val(r) == r[1]

\* '0'.repeat(64)
ZeroHash == <<>>
\* chain id derived from the facade's mnemonic, and one of another identity
ChainId == "c"
OtherChainId == "x"

Max(a, b) == IF a >= b THEN a ELSE b

(***************************************************************************)
(* utils/zeroize.js  zeroize(array)                                        *)
(***************************************************************************)
fill0(buf) == [i \in DOMAIN buf |-> 0]

RECURSIVE zeroizePasses(_, _)
zeroizePasses(buf, n) ==
  IF n = 0 THEN buf
  ELSE LET a == fill0(buf)
           b == IF Len(a) > 0 /\ a[1] # 0 THEN fill0(a) ELSE a
       IN  zeroizePasses(b, n - 1)

zeroizeFirstByteOnly(buf) == [i \in DOMAIN buf |-> IF i = 1 THEN 0 ELSE buf[i]]

zeroize(buf) == zeroizePasses(buf, ZEROIZE_PASSES)

(***************************************************************************)
(* identity/derivation  IdentityDerivation.deriveDocumentId                *)
(* The logical time enters the hash through new Uint32Array([logicalTime]), *)
(* which keeps the value modulo 2^32.  The model keeps Uint32Bits bits     *)
(* instead of 32; the logical times the facade reaches stay below that.    *)
(***************************************************************************)
Uint32Bits == 3
Uint32Range == 2 ^ Uint32Bits

\* new Uint32Array([x])[0]
toUint32(x) == x % Uint32Range

deriveDocumentId(chainId, parentHash, logicalTime) ==
  <<chainId, parentHash, toUint32(logicalTime)>>

(***************************************************************************)
(* LogicalClock.tick on a clock value: whether it throws, and the value.   *)
(***************************************************************************)
tickThrows(current) == current >= MaxTime
tick(current) == current + 1

(***************************************************************************)
(* Sequence helpers                                                        *)
(***************************************************************************)
RemoveAt(s, i) == SubSeq(s, 1, i - 1) \o SubSeq(s, i + 1, Len(s))

\* A Map is two lists of one length, its keys and its values in insertion
\* order.  The place of a key among the keys, 0 when it is not one of them
IndexOfKey(keys, key) ==
  IF \E i \in 1..Len(keys) : keys[i] = key
  THEN CHOOSE i \in 1..Len(keys) : keys[i] = key
  ELSE 0

\* the keys after Map.set(key, value): a new key goes last
keySet(keys, key) ==
  IF IndexOfKey(keys, key) = 0 THEN Append(keys, key) ELSE keys

\* the values after Map.set(key, value): an existing key keeps its place
mapSet(keys, values, key, value) ==
  LET k == IndexOfKey(keys, key)
  IN  IF k = 0 THEN Append(values, value) ELSE [values EXCEPT ![k] = value]

RECURSIVE MaxTimeOf(_)
MaxTimeOf(ds) ==
  IF Len(ds) = 0 THEN 0 ELSE Max(ds[1].logical_time, MaxTimeOf(Tail(ds)))

IdsOf(ds) == [i \in 1..Len(ds) |-> ds[i].id]


(***************************************************************************)
(* chain/fork  ForkDetector.scan, and the manager's #rebuildForkCache:     *)
(* group by parent_hash, one entry per group of two or more documents.     *)
(***************************************************************************)
\* parent hashes in order of first occurrence (Map insertion order)
RECURSIVE parentKeys(_, _)
parentKeys(docs, i) ==
  IF i > Len(docs) THEN <<>>
  ELSE IF \E j \in 1..(i - 1) : docs[j].parent_hash = docs[i].parent_hash
       THEN parentKeys(docs, i + 1)
       ELSE <<docs[i].parent_hash>> \o parentKeys(docs, i + 1)

\* the documents with parent_hash h, in the order of docs
RECURSIVE childrenFrom(_, _, _)
childrenFrom(docs, h, i) ==
  IF i > Len(docs) THEN <<>>
  ELSE IF docs[i].parent_hash = h
       THEN <<docs[i]>> \o childrenFrom(docs, h, i + 1)
       ELSE childrenFrom(docs, h, i + 1)

\* a faulty filter: only the first document of that parent is found
childrenOfFirstOnly(docs, h) ==
  IF Len(childrenFrom(docs, h, 1)) = 0 THEN <<>>
  ELSE <<childrenFrom(docs, h, 1)[1]>>

childrenOf(docs, h) == childrenFrom(docs, h, 1)

\* entries that list the first two children of a parent only
RECURSIVE forkEntriesFirstTwo(_, _, _)
forkEntriesFirstTwo(docs, keys, i) ==
  IF i > Len(keys) THEN <<>>
  ELSE LET children == childrenOf(docs, keys[i])
       IN  IF Len(children) > 1
           THEN <<[parentHash |-> keys[i],
                   documents  |-> IdsOf(SubSeq(children, 1, 2)),
                   detectedAt |-> MaxTimeOf(children),
                   resolved   |-> FALSE]>>
                \o forkEntriesFirstTwo(docs, keys, i + 1)
           ELSE forkEntriesFirstTwo(docs, keys, i + 1)

RECURSIVE forkEntries(_, _, _)
forkEntries(docs, keys, i) ==
  IF i > Len(keys) THEN <<>>
  ELSE LET children == childrenOf(docs, keys[i])
       IN  IF Len(children) > 1
           THEN <<[parentHash |-> keys[i],
                   documents  |-> IdsOf(children),
                   detectedAt |-> MaxTimeOf(children),
                   resolved   |-> FALSE]>> \o forkEntries(docs, keys, i + 1)
           ELSE forkEntries(docs, keys, i + 1)

rebuildForkCache(docs) == forkEntries(docs, parentKeys(docs, 1), 1)

\* stable insertion sort by detectedAt, as Array.prototype.sort does
RECURSIVE insertByDetectedAt(_, _)
insertByDetectedAt(sorted, f) ==
  IF Len(sorted) = 0 THEN <<f>>
  ELSE IF sorted[1].detectedAt <= f.detectedAt
       THEN <<sorted[1]>> \o insertByDetectedAt(Tail(sorted), f)
       ELSE <<f>> \o sorted

RECURSIVE sortByDetectedAt(_)
sortByDetectedAt(fs) ==
  IF Len(fs) = 0 THEN <<>>
  ELSE insertByDetectedAt(sortByDetectedAt(SubSeq(fs, 1, Len(fs) - 1)), fs[Len(fs)])

scan(docs) == sortByDetectedAt(rebuildForkCache(docs))

(***************************************************************************)
(* chain/state.ts  ChainStateManager                                       *)
(* A manager is [chainId, documentKeys, documents, lastHash, clock,        *)
(* clockFrozen, forkKeys, detectedForks, forkCacheValid]; documentKeys and *)
(* documents are the keys and values of the Map #documents, forkKeys and   *)
(* detectedForks those of #detectedForks; clock and clockFrozen are the    *)
(* value and the frozen flag of its LogicalClock.                          *)
(***************************************************************************)
newManager(chainId, initialTime) ==
  [chainId        |-> chainId,
   documentKeys   |-> <<>>,
   documents      |-> <<>>,
   lastHash       |-> ZeroHash,
   clock          |-> initialTime,
   clockFrozen    |-> FALSE,
   forkKeys       |-> <<>>,
   detectedForks  |-> <<>>,
   forkCacheValid |-> FALSE]

\* a #detectFork that records the fork as settled
detectForkResolves(mgr, doc) ==
  LET siblings == childrenOf(mgr.documents, doc.parent_hash)
  IN  IF Len(siblings) > 0
      THEN [mgr EXCEPT !.detectedForks =
              mapSet(mgr.forkKeys, @, doc.parent_hash,
                     [parentHash |-> doc.parent_hash,
                      documents  |-> Append(IdsOf(siblings), doc.id),
                      detectedAt |-> mgr.clock,
                      resolved   |-> TRUE]),
                       !.forkKeys = keySet(@, doc.parent_hash)]
      ELSE mgr

\* #detectFork(document)
detectFork(mgr, doc) ==
  LET siblings == childrenOf(mgr.documents, doc.parent_hash)
  IN  IF Len(siblings) > 0
      THEN [mgr EXCEPT !.detectedForks =
              mapSet(mgr.forkKeys, @, doc.parent_hash,
                     [parentHash |-> doc.parent_hash,
                      documents  |-> Append(IdsOf(siblings), doc.id),
                      detectedAt |-> mgr.clock,
                      resolved   |-> FALSE]),
                       !.forkKeys = keySet(@, doc.parent_hash)]
      ELSE mgr

\* a faulty append: the fork cache is left marked valid
appendKeepsForkCache(mgr, doc) ==
  IF doc.chain_id # mgr.chainId
  THEN [outcome |-> "ValidationFailed", mgr |-> mgr]
  ELSE LET m1 == IF doc.parent_hash # mgr.lastHash THEN detectFork(mgr, doc) ELSE mgr
           m2 == [m1 EXCEPT !.documents = mapSet(m1.documentKeys, @, doc.id, doc),
                            !.documentKeys = keySet(@, doc.id),
                            !.lastHash = doc.id]
       IN  IF m2.clockFrozen \/ tickThrows(m2.clock)
           THEN [outcome |-> "LogicalTimeViolation", mgr |-> m2]
           ELSE [outcome |-> "ok", mgr |-> [m2 EXCEPT !.clock = tick(@)]]

\* append(document): the outcome and the manager it leaves behind
append(mgr, doc) ==
  IF doc.chain_id # mgr.chainId
  THEN [outcome |-> "ValidationFailed", mgr |-> mgr]
  ELSE LET m1 == IF doc.parent_hash # mgr.lastHash THEN detectFork(mgr, doc) ELSE mgr
           m2 == [m1 EXCEPT !.documents = mapSet(m1.documentKeys, @, doc.id, doc),
                            !.documentKeys = keySet(@, doc.id),
                            !.lastHash = doc.id,
                            !.forkCacheValid = FALSE]
       IN  IF m2.clockFrozen \/ tickThrows(m2.clock)
           THEN [outcome |-> "LogicalTimeViolation", mgr |-> m2]
           ELSE [outcome |-> "ok", mgr |-> [m2 EXCEPT !.clock = tick(@)]]

\* getDocument(id): Null for undefined
getDocument(mgr, id) ==
  IF IndexOfKey(mgr.documentKeys, id) = 0 THEN Null
  ELSE Some(mgr.documents[IndexOfKey(mgr.documentKeys, id)])

\* a faulty reset: last_hash is kept
resetKeepsLastHash(mgr) ==
  [mgr EXCEPT !.documentKeys = <<>>,
              !.documents = <<>>,
              !.forkKeys = <<>>,
              !.detectedForks = <<>>,
              !.forkCacheValid = FALSE]

\* reset(): the clock is left as it is
reset(mgr) ==
  [mgr EXCEPT !.documentKeys = <<>>,
              !.documents = <<>>,
              !.lastHash = ZeroHash,
              !.forkKeys = <<>>,
              !.detectedForks = <<>>,
              !.forkCacheValid = FALSE]

\* stable insertion sort by logical_time, as Array.prototype.sort does
RECURSIVE insertByLogicalTime(_, _)
insertByLogicalTime(sorted, d) ==
  IF Len(sorted) = 0 THEN <<d>>
  ELSE IF sorted[1].logical_time <= d.logical_time
       THEN <<sorted[1]>> \o insertByLogicalTime(Tail(sorted), d)
       ELSE <<d>> \o sorted

RECURSIVE sortByLogicalTime(_)
sortByLogicalTime(ds) ==
  IF Len(ds) = 0 THEN <<>>
  ELSE insertByLogicalTime(sortByLogicalTime(SubSeq(ds, 1, Len(ds) - 1)),
                           ds[Len(ds)])

\* the loop of verifyIntegrity from document i of the sorted list on: what
\* the call returns, "true" or "false", or the error it throws.  Past the
\* parent check the loop calls Blake2b.computeDocumentHash, a member the
\* class Blake2b does not have: the call throws a TypeError.
RECURSIVE integrityFrom(_, _, _)
integrityFrom(sorted, i, prevHash) ==
  IF i > Len(sorted) THEN "true"
  ELSE IF sorted[i].parent_hash # prevHash THEN "false"
  ELSE "TypeError"

\* verifyIntegrity()
verifyIntegrity(mgr) ==
  integrityFrom(sortByLogicalTime(mgr.documents), 1, ZeroHash)

\* get forks(): rebuilds the cached table when it is not valid
forksGetter(mgr) ==
  IF mgr.forkCacheValid THEN mgr
  ELSE LET forks == rebuildForkCache(mgr.documents)
       IN  [mgr EXCEPT !.forkKeys = [i \in 1..Len(forks) |->
                                       forks[i].parentHash],
                       !.detectedForks = forks,
                       !.forkCacheValid = TRUE]

\* getState()
getState(mgr) ==
  [chainId       |-> mgr.chainId,
   lastHash      |-> mgr.lastHash,
   logicalClock  |-> mgr.clock,
   documentCount |-> Len(mgr.documents),
   forks         |-> forksGetter(mgr).detectedForks]

\* export(): the JSON text of the state, as the value it encodes
exportNoLastHash(mgr) ==
  [parses    |-> TRUE,
   hasClock  |-> TRUE,
   chainId   |-> mgr.chainId,
   lastHash  |-> ZeroHash,
   clock     |-> [logical_clock |-> mgr.clock, version |-> "1.0"],
   documents |-> [i \in 1..Len(mgr.documents) |->
                    <<mgr.documentKeys[i], mgr.documents[i]>>],
   forks     |-> [i \in 1..Len(mgr.detectedForks) |->
                    <<mgr.forkKeys[i], mgr.detectedForks[i]>>]]

export(mgr) ==
  [parses    |-> TRUE,
   hasClock  |-> TRUE,
   chainId   |-> mgr.chainId,
   lastHash  |-> mgr.lastHash,
   clock     |-> [logical_clock |-> mgr.clock, version |-> "1.0"],
   documents |-> [i \in 1..Len(mgr.documents) |->
                    <<mgr.documentKeys[i], mgr.documents[i]>>],
   forks     |-> [i \in 1..Len(mgr.detectedForks) |->
                    <<mgr.forkKeys[i], mgr.detectedForks[i]>>]]

RECURSIVE setAllDocs(_, _, _)
\* for (const [id, doc] of state.documents) manager.#documents.set(id, doc):
\* the Map [keys, values] after the entries from entry i on are set
setAllDocs(docs, entries, i) ==
  IF i > Len(entries) THEN docs
  ELSE setAllDocs([keys   |-> keySet(docs.keys, entries[i][1]),
                   values |-> mapSet(docs.keys, docs.values,
                                     entries[i][1], entries[i][2])],
                  entries, i + 1)

RECURSIVE setAllForks(_, _, _)
\* for (const [hash, fork] of state.forks) manager.#detectedForks.set(hash, fork)
setAllForks(forks, entries, i) ==
  IF i > Len(entries) THEN forks
  ELSE setAllForks([keys   |-> keySet(forks.keys, entries[i][1]),
                    values |-> mapSet(forks.keys, forks.values,
                                      entries[i][1], entries[i][2])],
                   entries, i + 1)

\* static import(data, chainId): the outcome and, when it is "ok", the manager
import(data, chainId) ==
  IF ~data.parses
  THEN [outcome |-> "SyntaxError", mgr |-> Null]
  ELSE IF data.chainId # chainId
  THEN [outcome |-> "ValidationFailed", mgr |-> Null]
  ELSE IF ~data.hasClock
  THEN [outcome |-> "TypeError", mgr |-> Null]
  ELSE IF data.clock.logical_clock < LOGICAL_TIME_MIN
  THEN [outcome |-> "LogicalTimeViolation", mgr |-> Null]
  ELSE LET empty == [keys |-> <<>>, values |-> <<>>]
           docs  == setAllDocs(empty, data.documents, 1)
           forks == setAllForks(empty, data.forks, 1)
       IN  [outcome |-> "ok",
            mgr |-> Some([newManager(chainId, data.clock.logical_clock) EXCEPT
                            !.lastHash = data.lastHash,
                            !.documentKeys = docs.keys,
                            !.documents = docs.values,
                            !.forkKeys = forks.keys,
                            !.detectedForks = forks.values])]


(***************************************************************************)
(* core.ts  NewZoneCore: the state of one facade.                          *)
(***************************************************************************)
VARIABLES
  identity,      \* #identity: Null or [publicKey, privateKey, chainId]
  keyBuf,        \* the bytes of the Uint8Array #identity.privateKey refers to
  mnemonic,      \* #mnemonic: Null or the phrase
  chainState,    \* #chainState: Null or a manager
  clockRef,      \* #clock: "null", "own" (the clock made by initialize) or
                 \* "chain" (the clock object of the manager in #chainState)
  ownClock,      \* value of the clock made by initialize, while referenced
  validator,     \* #validator: Null or the validator
  pending,       \* createDocument calls suspended at an await, in call order
  last,          \* the latest operation step and what it returned
  maxReturned,   \* history: largest logical_time create_document has returned
  destroyCalled, \* history: destroy has run
  createFailed,  \* history: some create_document has failed
  options,       \* #options: what the facade was created with
  wallClock,     \* what Date reads now, in milliseconds
  builder,       \* a DocumentBuilder used on its own: Null or its doc object
  requestLimiter, \* a RateLimiter used on its own: Null or [limit, windowMs,
                 \* requests, granted], requests the recorded times and
                 \* granted the history of the times at which check()
                 \* succeeded since construction or the latest reset()
  imports,       \* history: importState calls that succeeded
  rateLimiter,   \* #rateLimiter: Null or [limit, requests], requests being the
                 \* number of recorded requests that are still in the window
  logicalClock   \* a LogicalClock used on its own: Null or [current, frozen]

vars == <<requestLimiter, builder, options, wallClock, rateLimiter, logicalClock, identity, keyBuf, mnemonic, chainState, clockRef, ownClock, validator,
          pending, last, maxReturned, destroyCalled, createFailed, imports>>

Mnemonic12 == "abandon x11 about"
DocTypes == {"", "test"}
\* {} canonicalizes; a payload holding a BigInt or a cycle does not
Payloads == {"empty", "unserializable"}
\* what the Ed25519 backend hands back to createDocument
SignResults == {"sig64", "sigEmpty", "throws"}

\* a derived private key: no byte of it is zero
KeyPatterns == { [i \in 1..PRIVATE_KEY_LENGTH |-> i] }

\* assertInitialized() passes
assertInitialized ==
  /\ identity # Null
  /\ chainState # Null
  /\ clockRef # "null"
  /\ validator # Null

\* this.#clock.current
clockCurrent == IF clockRef = "own" THEN ownClock ELSE Val(chainState).clock

\* what a caller can tell of the facade's chain state
FacadeSnap ==
  [documents    |-> Val(chainState).documents,
   lastHash     |-> Val(chainState).lastHash,
   logicalClock |-> Val(chainState).clock,
   clock        |-> clockCurrent,
   forks        |-> Val(chainState).detectedForks]

Step(op, phase, outcome) ==
  [op |-> op, phase |-> phase, outcome |-> outcome,
   doc |-> Null, value |-> Null, pre |-> Null, snap |-> Null]

\* another operation has changed the facade while these calls were suspended:
\* the state they started from is no longer the state to compare with
NotAlone(p) == [i \in DOMAIN p |-> [p[i] EXCEPT !.pre = Null]]

\* the options of a facade made with the rate limiter limiter and the policy
\* evaluator policyEngine, everything else left out
optionsWith(limiter, policyEngine) ==
  [initialTime  |-> Null,
   chainId      |-> Null,
   rateLimit    |-> IF limiter = Null THEN Null
                    ELSE Some([limit |-> Val(limiter).limit, windowMs |-> 1]),
   policyEngine |-> policyEngine]

\* the facade NewZoneCore.create(mnemonic, options) returns, limiter being
\* the rate limiter and policyEngine the evaluator its options ask for
initializeWith(limiter, policyEngine) ==
  /\ wallClock = 0
  /\ requestLimiter = Null
  /\ builder = Null
  /\ options = optionsWith(limiter, policyEngine)
  /\ \E t \in LOGICAL_TIME_MIN..MaxInitialTime :
       /\ ownClock = t
       /\ chainState = Some(newManager(ChainId, t))
  /\ \E k \in KeyPatterns : keyBuf = k
  /\ identity = Some([publicKey |-> "pk", privateKey |-> "keyBuf", chainId |-> ChainId])
  /\ mnemonic = Some(Mnemonic12)
  /\ clockRef = "own"
  /\ validator = Some("DocumentValidator")
  /\ pending = <<>>
  /\ last = Step("create", "call", "ok")
  /\ maxReturned = 0
  /\ destroyCalled = FALSE
  /\ createFailed = FALSE
  /\ imports = 0
  /\ rateLimiter = limiter
  /\ logicalClock = Null

\* a facade made without a policy evaluator
initialize(limiter) == initializeWith(limiter, Null)

\* src/src/core.ts has no rate limiter
Init == initialize(Null)


\* a hash member that was never set, and a string that is not 64 hex
\* characters
MissingHash == <<"missing">>
NotHex == <<"nothex">>

\* !doc.logical_time.  logical_time_type is typeof doc.logical_time:
\* "undefined" for a member that is not there, "string" for the decimal
\* text of logical_time, "number" for logical_time itself, or for
\* logical_time + 1/2 when logical_time_half is set
noLogicalTime(doc) ==
  \/ doc.logical_time_type = "undefined"
  \/ /\ doc.logical_time_type = "number"
     /\ doc.logical_time = 0
     /\ ~doc.logical_time_half

(***************************************************************************)
(* document/builder  DocumentBuilder.build(): validate() on the fields set, *)
(* then canonicalization of the document.  validate() first refuses every  *)
(* required field that is falsy: "" for a string, MissingHash for a        *)
(* parent_hash that was not set, the number 0 for logical_time.            *)
(* CanonicalJSON.canonicalize is JSON.parse(serialize(doc)): serialize     *)
(* throws for a payload JSON cannot hold, and JSON.parse throws on the     *)
(* text serialize returns for a payload that holds a function.             *)
(***************************************************************************)
build(doc) ==
  IF \/ doc.type = ""
     \/ doc.version = ""
     \/ doc.chain_id = ""
     \/ doc.parent_hash = MissingHash
     \/ noLogicalTime(doc)
     \/ doc.crypto_suite = ""
  THEN "ValidationFailed"
  ELSE IF doc.logical_time_type # "number" \/ doc.logical_time < 1
  THEN "LogicalTimeViolation"
  ELSE IF doc.crypto_suite # CRYPTO_SUITE
  THEN "CryptoSuiteMismatch"
  ELSE IF doc.payload = "unserializable"
  THEN "NonCanonicalJson"
  ELSE IF doc.payload = "function"
  THEN "SyntaxError"
  ELSE "ok"

\* new Date(ms).toISOString(): the text of the instant
toISOString(ms) == <<"iso", ms>>

\* the fields createDocument hands to the builder, before signing
newDocument(chainId, parentHash, logicalTime, type, payload) ==
  [type         |-> type,
   version      |-> DOCUMENT_VERSION,
   id           |-> deriveDocumentId(chainId, parentHash, logicalTime),
   chain_id     |-> chainId,
   created_at   |-> Null,
   parent_hash  |-> parentHash,
   logical_time |-> logicalTime,
   logical_time_half |-> FALSE,
   logical_time_type |-> "number",
   crypto_suite |-> CRYPTO_SUITE,
   payload      |-> payload,
   signature    |-> Null]

\* the document new DocumentBuilder() builds from those fields when Date
\* reads now: the constructor sets created_at
builtDocument(chainId, parentHash, logicalTime, type, payload, now) ==
  [newDocument(chainId, parentHash, logicalTime, type, payload)
     EXCEPT !.created_at = Some(toISOString(now))]

(***************************************************************************)
(* crypto/ed25519, utils/encoding, document/canonical: signatures.         *)
(* A byte string a backend returns as a signature is <<length, public key  *)
(* of the signing key, data signed>>; its hex text is <<"hex", number of   *)
(* characters, key, data>>.  A signature verifies when it has 64 bytes and *)
(* was made over the same data with the key the public key belongs to.     *)
(***************************************************************************)
\* the public key of the pair a private key belongs to
publicKeyOf(privateKey) == IF privateKey = "keyBuf" THEN "pk" ELSE "pk:other"

\* number of bytes in what the backend handed back
sigLength(sig) ==
  CASE sig = "sig64"    -> SIGNATURE_LENGTH
    [] sig = "sig63"    -> SIGNATURE_LENGTH - 1
    [] sig = "sig65"    -> SIGNATURE_LENGTH + 1
    [] sig = "sigEmpty" -> 0

\* a faulty sign: the signature is made over no data
signOverNothing(sig, data, privateKey) ==
  <<sigLength(sig), publicKeyOf(privateKey), <<>>>>

\* Ed25519.sign(data, privateKey), for a backend result that is not a throw
sign(sig, data, privateKey) == <<sigLength(sig), publicKeyOf(privateKey), data>>

\* Ed25519.verify(signature, data, publicKey): false on any backend error
verify(signature, data, publicKey) ==
  /\ signature[1] = SIGNATURE_LENGTH
  /\ signature[2] = publicKey
  /\ signature[3] = data

\* toHex(bytes): two characters a byte
toHex(bytes) == <<"hex", 2 * bytes[1], bytes[2], bytes[3]>>

\* fromHex(hex): throws on an odd number of characters
fromHexThrows(hex) == hex[2] % 2 # 0
fromHex(hex) == <<hex[2] \div 2, hex[3], hex[4]>>

\* CanonicalJSON.serialize(docWithoutSig): the members in key order; throws
\* for a value JSON cannot hold.  For a payload that holds a function the
\* text has the word undefined where the value belongs
serializeThrows(doc) == doc.payload = "unserializable"

\* a serialization that leaves the payload out
serializeWithoutPayload(doc) ==
  <<doc.chain_id, doc.created_at, doc.crypto_suite, doc.id, doc.logical_time,
    doc.logical_time_half, doc.logical_time_type, doc.parent_hash, doc.type,
    doc.version>>

serialize(doc) ==
  <<doc.chain_id, doc.created_at, doc.crypto_suite, doc.id, doc.logical_time,
    doc.logical_time_half, doc.logical_time_type, doc.parent_hash,
    doc.payload, doc.type, doc.version>>

\* CanonicalJSON.assertCanonical(canonical) throws: JSON.parse refuses the
\* text, or the text is not the serialization of what it parses to.  What
\* serialize returns parses and serializes to itself unless it holds the
\* word undefined
assertCanonicalThrows(canonical) == canonical[9] = "function"

\* doc.signature = toHex(signatureBytes)
signed(doc, signatureBytes) == [doc EXCEPT !.signature = toHex(signatureBytes)]

(***************************************************************************)
(* document/validator.ts  DocumentValidator.                               *)
(* A document handed to the validator is Null (no object) or <<d>>, d with *)
(* the members of a document: "" is a missing string, logical_time_type    *)
(* "undefined" a missing logical_time, MissingHash a missing id or         *)
(* parent_hash, NotHex a string that is not 64 hex characters, Null a      *)
(* missing signature.  A context is [currentTime, trustedKeys,             *)
(* policyEngine], the policy engine being "none" or what its evaluate()    *)
(* does.                                                                   *)
(* Member ran of a result is history: the steps the call went through.     *)
(***************************************************************************)
\* /^[0-9a-f]{64}$/.test(h)
isHex64(h) == h # MissingHash /\ h # NotHex

\* !doc.signature: no signature member, or the empty string
noSignature(doc) ==
  IF doc.signature = Null THEN TRUE ELSE doc.signature[2] = 0

\* the messages validateStructural collects, in the order of its checks
validateStructural(doc) ==
  (IF doc.type = "" THEN <<"Missing required field: type">> ELSE <<>>)
  \o (IF doc.version = "" THEN <<"Missing required field: version">> ELSE <<>>)
  \o (IF doc.id = MissingHash THEN <<"Missing required field: id">> ELSE <<>>)
  \o (IF doc.chain_id = "" THEN <<"Missing required field: chain_id">> ELSE <<>>)
  \o (IF doc.parent_hash = MissingHash
      THEN <<"Missing required field: parent_hash">> ELSE <<>>)
  \o (IF noLogicalTime(doc)
      THEN <<"Missing required field: logical_time">> ELSE <<>>)
  \o (IF doc.crypto_suite = ""
      THEN <<"Missing required field: crypto_suite">> ELSE <<>>)
  \o (IF doc.logical_time_type # "number"
      THEN <<"logical_time must be a number">>
      ELSE IF doc.logical_time < 1 THEN <<"logical_time MUST be >= 1">>
      ELSE <<>>)
  \o (IF doc.crypto_suite # CRYPTO_SUITE
      THEN <<"crypto_suite MUST be nzcore-crypto-01">> ELSE <<>>)
  \o (IF doc.version # "1.0" THEN <<"version MUST be 1.0">> ELSE <<>>)
  \o (IF noSignature(doc) THEN <<"Missing signature">> ELSE <<>>)
  \o (IF doc.parent_hash # MissingHash /\ ~isHex64(doc.parent_hash)
      THEN <<"parent_hash must be 64 character hex string">> ELSE <<>>)

\* doc.logical_time > currentTime, currentTime an integer: the comparison
\* of the numbers, the text of a number counting as that number, and false
\* for a member that is not there
laterThan(doc, currentTime) ==
  /\ doc.logical_time_type # "undefined"
  /\ \/ doc.logical_time > currentTime
     \/ doc.logical_time = currentTime /\ doc.logical_time_half

\* for (const key of trustedKeys): some key verifies the signature
RECURSIVE tryKeys(_, _, _, _)
tryKeys(signature, data, trustedKeys, i) ==
  IF i > Len(trustedKeys) THEN FALSE
  ELSE IF verify(signature, data, trustedKeys[i]) THEN TRUE
  ELSE tryKeys(signature, data, trustedKeys, i + 1)

\* validateCryptographic(doc, context, result): the flag, what it adds to
\* errors and warnings, and the steps taken
validateCryptographic(doc, context) ==
  LET no(msg, ran) == [valid |-> FALSE, errors |-> <<msg>>, warnings |-> <<>>,
                       ran |-> ran]
  IN  IF serializeThrows(doc)
      THEN no("Cryptographic validation error", <<"serialize">>)
      ELSE IF assertCanonicalThrows(serialize(doc))
      THEN no("Document is not canonical JSON",
              <<"serialize", "assertCanonical">>)
      ELSE IF noSignature(doc)
      THEN no("No signature provided", <<"serialize", "assertCanonical">>)
      ELSE IF fromHexThrows(doc.signature)
      THEN no("Cryptographic validation error",
              <<"serialize", "assertCanonical", "fromHex">>)
      ELSE IF Len(context.trustedKeys) = 0
      THEN no("No trusted keys provided for verification",
              <<"serialize", "assertCanonical", "fromHex">>)
      ELSE IF ~tryKeys(fromHex(doc.signature), serialize(doc),
                       context.trustedKeys, 1)
      THEN no("Signature verification failed",
              <<"serialize", "assertCanonical", "fromHex", "Ed25519.verify">>)
      ELSE [valid    |-> TRUE,
            errors   |-> <<>>,
            warnings |-> IF context.currentTime # 0
                            /\ laterThan(doc, context.currentTime)
                         THEN <<"Document logical time > current time">>
                         ELSE <<>>,
            ran      |-> <<"serialize", "assertCanonical", "fromHex",
                           "Ed25519.verify">>]

\* a faulty validatePolicy: an evaluator that throws counts as passing
validatePolicyPassesOnThrow(doc, context) ==
  CASE context.policyEngine = "none"   -> [valid |-> TRUE, errors |-> <<>>,
                                           ran |-> <<>>]
    [] context.policyEngine = "allow"  -> [valid |-> TRUE, errors |-> <<>>,
                                           ran |-> <<"policyEngine.evaluate">>]
    [] context.policyEngine = "deny"   -> [valid |-> FALSE, errors |-> <<>>,
                                           ran |-> <<"policyEngine.evaluate">>]
    [] context.policyEngine = "throws" -> [valid |-> TRUE, errors |-> <<>>,
                                           ran |-> <<"policyEngine.evaluate">>]

\* validatePolicy(doc, context, result)
validatePolicy(doc, context) ==
  CASE context.policyEngine = "none"   -> [valid |-> TRUE, errors |-> <<>>,
                                           ran |-> <<>>]
    [] context.policyEngine = "allow"  -> [valid |-> TRUE, errors |-> <<>>,
                                           ran |-> <<"policyEngine.evaluate">>]
    [] context.policyEngine = "deny"   -> [valid |-> FALSE, errors |-> <<>>,
                                           ran |-> <<"policyEngine.evaluate">>]
    [] context.policyEngine = "throws" -> [valid |-> FALSE,
                                           errors |-> <<"Policy evaluation error">>,
                                           ran |-> <<"policyEngine.evaluate">>]

\* a finalize that looks at the structural layer alone
finalizeStructuralOnly(result) ==
  [result EXCEPT !.final = result.structural_valid]

\* finalize(result)
finalize(result) ==
  [result EXCEPT !.final = result.structural_valid
                           /\ result.cryptographic_valid
                           /\ result.policy_valid]

\* a validate that goes through every layer whatever the earlier ones said
validateEveryLayer(document, context) ==
  LET result == [structural_valid    |-> FALSE,
                 cryptographic_valid |-> FALSE,
                 policy_valid        |-> FALSE,
                 final               |-> FALSE,
                 errors              |-> <<>>,
                 warnings            |-> <<>>,
                 ran                 |-> <<>>]
  IN  IF document = Null
      THEN \* doc[field] throws a TypeError, which the catch records
           finalize([result EXCEPT !.errors = <<"TypeError">>,
                                   !.ran = <<"validateStructural">>])
      ELSE
      LET doc == Val(document)
          s   == validateStructural(doc)
          r1  == [result EXCEPT !.structural_valid = (s = <<>>),
                                !.errors = s,
                                !.ran = <<"validateStructural">>]
          c   == validateCryptographic(doc, context)
          r2  == [r1 EXCEPT !.cryptographic_valid = c.valid,
                            !.errors = @ \o c.errors,
                            !.warnings = c.warnings,
                            !.ran = @ \o <<"validateCryptographic">> \o c.ran]
          pl  == validatePolicy(doc, context)
          r3  == [r2 EXCEPT !.policy_valid = pl.valid,
                            !.errors = @ \o pl.errors,
                            !.ran = @ \o <<"validatePolicy">> \o pl.ran]
      IN  finalize([r3 EXCEPT !.final = r3.structural_valid
                                             /\ r3.cryptographic_valid
                                             /\ r3.policy_valid])

\* validate(document, context): it has no path that throws
validate(document, context) ==
  LET result == [structural_valid    |-> FALSE,
                 cryptographic_valid |-> FALSE,
                 policy_valid        |-> FALSE,
                 final               |-> FALSE,
                 errors              |-> <<>>,
                 warnings            |-> <<>>,
                 ran                 |-> <<>>]
  IN  IF document = Null
      THEN \* doc[field] throws a TypeError, which the catch records
           finalize([result EXCEPT !.errors = <<"TypeError">>,
                                   !.ran = <<"validateStructural">>])
      ELSE
      LET doc == Val(document)
          s   == validateStructural(doc)
          r1  == [result EXCEPT !.structural_valid = (s = <<>>),
                                !.errors = s,
                                !.ran = <<"validateStructural">>]
          c   == validateCryptographic(doc, context)
          r2  == [r1 EXCEPT !.cryptographic_valid = c.valid,
                            !.errors = @ \o c.errors,
                            !.warnings = c.warnings,
                            !.ran = @ \o <<"validateCryptographic">> \o c.ran]
          pl  == validatePolicy(doc, context)
          r3  == [r2 EXCEPT !.policy_valid = pl.valid,
                            !.errors = @ \o pl.errors,
                            !.ran = @ \o <<"validatePolicy">> \o pl.ran]
      IN  IF ~r1.structural_valid THEN finalize(r1)
          ELSE IF ~r2.cryptographic_valid THEN finalize(r2)
          ELSE finalize([r3 EXCEPT !.final = r3.structural_valid
                                             /\ r3.cryptographic_valid
                                             /\ r3.policy_valid])

(***************************************************************************)
(* State blobs handed to importState.  Besides the bytes exportState just  *)
(* returned, they are those another facade of the same mnemonic exports    *)
(* after n awaited createDocument calls from initial time t0, and blobs    *)
(* that are of another chain or malformed.                                 *)
(***************************************************************************)
RECURSIVE sequentialManager(_, _)
sequentialManager(t0, n) ==
  IF n = 0 THEN newManager(ChainId, t0)
  ELSE LET m == sequentialManager(t0, n - 1)
           d == builtDocument(ChainId, m.lastHash, t0 + n, "test", "empty", 0)
       IN  append(m, signed(d, sign("sig64", serialize(d), "keyBuf"))).mgr

ChainSnap(mgr) ==
  [documents    |-> mgr.documents,
   lastHash     |-> mgr.lastHash,
   logicalClock |-> mgr.clock]

SequentialItems ==
  { [data |-> export(sequentialManager(p[1], p[2])),
     snap |-> Some(ChainSnap(sequentialManager(p[1], p[2])))] :
      p \in { q \in (LOGICAL_TIME_MIN..MaxInitialTime) \X (0..MaxSeqDocs) :
                q[1] + q[2] <= MaxTime } }

ForeignItems ==
  { [data |-> b, snap |-> Null] :
      b \in { export(newManager(OtherChainId, 1)),
              [export(newManager(ChainId, 1)) EXCEPT !.parses = FALSE],
              [export(newManager(ChainId, 1)) EXCEPT !.hasClock = FALSE],
              [export(newManager(ChainId, 1)) EXCEPT !.clock.logical_clock = 0] } }

\* the bytes the latest step returned, when it was an exportState
JustExported ==
  IF last.op = "exportState" /\ last.outcome = "ok"
  THEN { [data |-> Val(last.value), snap |-> last.snap] }
  ELSE {}

(***************************************************************************)
(* createDocument(type, payload), up to its first await: assertInitialized,*)
(* clock.tick(), getLastHash(), deriveDocumentId, builder.build().         *)
(***************************************************************************)
createDocument(type, payload) ==
  IF ~assertInitialized
  THEN /\ last' = Step("createDocument", "call", "NotInitialized")
       /\ createFailed' = TRUE
       /\ UNCHANGED <<requestLimiter, builder, options, wallClock, rateLimiter, logicalClock, identity, keyBuf, mnemonic, chainState, clockRef, ownClock,
                      validator, pending, maxReturned, destroyCalled, imports>>
  ELSE IF tickThrows(clockCurrent)
  THEN /\ last' = [Step("createDocument", "call", "LogicalTimeViolation")
                     EXCEPT !.pre = Some(FacadeSnap)]
       /\ createFailed' = TRUE
       /\ UNCHANGED <<requestLimiter, builder, options, wallClock, rateLimiter, logicalClock, identity, keyBuf, mnemonic, chainState, clockRef, ownClock,
                      validator, pending, maxReturned, destroyCalled, imports>>
  ELSE LET mgr         == Val(chainState)
           logicalTime == tick(clockCurrent)
           parentHash  == mgr.lastHash
           doc == builtDocument(mgr.chainId, parentHash, logicalTime, type,
                                payload, wallClock)
           built == build(doc)
       IN  /\ IF clockRef = "own"
              THEN ownClock' = logicalTime /\ chainState' = chainState
              ELSE ownClock' = ownClock
                   /\ chainState' = Some([mgr EXCEPT !.clock = logicalTime])
           /\ IF built # "ok"
              THEN /\ pending' = NotAlone(pending)
                   /\ last' = [Step("createDocument", "call", built)
                                 EXCEPT !.pre = Some(FacadeSnap)]
                   /\ createFailed' = TRUE
              ELSE /\ Len(pending) < MaxPending
                   /\ pending' = Append(NotAlone(pending),
                                        [doc |-> doc, pre |-> Some(FacadeSnap),
                                         privateKey |-> Null])
                   /\ last' = Step("createDocument", "call", "pending")
                   /\ createFailed' = createFailed
           /\ UNCHANGED <<requestLimiter, builder, options, wallClock, rateLimiter, logicalClock, identity, keyBuf, mnemonic, clockRef, validator,
                          maxReturned, destroyCalled, imports>>

(***************************************************************************)
(* createDocument resumed after the awaits of build and serialize: it      *)
(* reads this.#identity.privateKey, which throws once destroy() has nulled *)
(* #identity, and calls Ed25519.sign with it.  Each call reaches this      *)
(* point the same number of promise turns after it was made, so the calls  *)
(* come to it in the order in which they were made: the call that acts is  *)
(* the earliest one that has not read the key yet.                         *)
(***************************************************************************)
firstUnsigned(calls) ==
  IF \E k \in 1..Len(calls) : calls[k].privateKey = Null
  THEN CHOOSE k \in 1..Len(calls) :
         /\ calls[k].privateKey = Null
         /\ \A j \in 1..(k - 1) : calls[j].privateKey # Null
  ELSE 0

createDocumentSign ==
  /\ firstUnsigned(pending) # 0
  /\ LET i == firstUnsigned(pending)
     IN  IF identity = Null
         THEN /\ pending' = RemoveAt(pending, i)
              /\ last' = [Step("createDocument", "resume", "TypeError")
                            EXCEPT !.pre = pending[i].pre]
              /\ createFailed' = TRUE
         ELSE /\ pending' = [pending EXCEPT
                               ![i].privateKey = Some(Val(identity).privateKey)]
              /\ last' = Step("createDocument", "sign", "pending")
              /\ createFailed' = createFailed
  /\ UNCHANGED <<requestLimiter, builder, options, wallClock, rateLimiter, logicalClock, identity, keyBuf, mnemonic, chainState, clockRef, ownClock,
                 validator, maxReturned, destroyCalled, imports>>

(***************************************************************************)
(* createDocument resumed after the await of Ed25519.sign, which was       *)
(* called with the private key read before it: a backend that throws is    *)
(* InvalidSignature, then the length check, doc.signature = toHex(...),    *)
(* this.#chainState.append(doc), which throws once destroy() has nulled    *)
(* #chainState, return doc.  The backend answers the calls in any order.   *)
(***************************************************************************)
createDocumentResume(i, sig) ==
  /\ i \in 1..Len(pending)
  /\ pending[i].privateKey # Null
  /\ LET call == pending[i]
         fail(outcome) == [Step("createDocument", "resume", outcome)
                             EXCEPT !.pre = call.pre]
     IN  IF sig = "throws" \/ sigLength(sig) = 0
         THEN /\ pending' = RemoveAt(pending, i)
              /\ last' = fail("InvalidSignature")
              /\ createFailed' = TRUE
              /\ UNCHANGED <<chainState, maxReturned>>
         ELSE IF chainState = Null
         THEN /\ pending' = RemoveAt(pending, i)
              /\ last' = fail("TypeError")
              /\ createFailed' = TRUE
              /\ UNCHANGED <<chainState, maxReturned>>
         ELSE LET doc == signed(call.doc,
                                sign(sig, serialize(call.doc),
                                     Val(call.privateKey)))
                  r   == append(Val(chainState), doc)
              IN  /\ chainState' = Some(r.mgr)
                  /\ pending' = NotAlone(RemoveAt(pending, i))
                  /\ IF r.outcome = "ok"
                     THEN /\ last' = [Step("createDocument", "resume", "ok")
                                        EXCEPT !.pre = call.pre,
                                               !.doc = Some(doc)]
                          /\ maxReturned' = Max(maxReturned, doc.logical_time)
                          /\ createFailed' = createFailed
                     ELSE /\ last' = fail(r.outcome)
                          /\ createFailed' = TRUE
                          /\ maxReturned' = maxReturned
  /\ UNCHANGED <<requestLimiter, builder, options, wallClock, rateLimiter, logicalClock, identity, keyBuf, mnemonic, clockRef, ownClock, validator,
                 destroyCalled, imports>>


(***************************************************************************)
(* The operations that do not suspend.                                     *)
(***************************************************************************)
NotInitialized(op) ==
  /\ last' = Step(op, "call", "NotInitialized")
  /\ UNCHANGED <<requestLimiter, builder, options, wallClock, rateLimiter, logicalClock, identity, keyBuf, mnemonic, chainState, clockRef, ownClock, validator,
                 pending, maxReturned, destroyCalled, createFailed, imports>>

\* a read that leaves the facade as it is and returns value
Returns(op, value) ==
  /\ last' = [Step(op, "call", "ok") EXCEPT !.value = Some(value)]
  /\ UNCHANGED <<requestLimiter, builder, options, wallClock, rateLimiter, logicalClock, identity, keyBuf, mnemonic, chainState, clockRef, ownClock, validator,
                 pending, maxReturned, destroyCalled, createFailed, imports>>

\* RateLimiter.check(): kept is the number of recorded requests that are
\* still inside the window at the time of the call
check(limiter, kept) ==
  IF kept >= limiter.limit
  THEN [outcome |-> "ValidationFailed",
        limiter |-> [limiter EXCEPT !.requests = kept]]
  ELSE [outcome |-> "ok",
        limiter |-> [limiter EXCEPT !.requests = kept + 1]]

\* verifyDocument(document): assertInitialized, the rate limiter when one
\* was configured, then the validator with currentTime = clock.current and
\* trustedKeys = [publicKey]
verifyDocument(document, kept) ==
  IF ~assertInitialized
  THEN /\ last' = [Step("verifyDocument", "call", "NotInitialized")
                     EXCEPT !.doc = document]
       /\ UNCHANGED <<requestLimiter, builder, options, wallClock, rateLimiter, logicalClock, identity, keyBuf, mnemonic,
                      chainState, clockRef, ownClock, validator, pending,
                      maxReturned, destroyCalled, createFailed, imports>>
  ELSE LET r == IF rateLimiter = Null
                THEN [outcome |-> "ok", limiter |-> Null]
                ELSE LET c == check(Val(rateLimiter), kept)
                     IN  [outcome |-> c.outcome, limiter |-> Some(c.limiter)]
           context == [currentTime  |-> clockCurrent,
                       trustedKeys  |-> <<Val(identity).publicKey>>,
                       policyEngine |-> "none"]
       IN  /\ IF rateLimiter = Null THEN kept = 0
              ELSE kept <= Val(rateLimiter).requests
           /\ rateLimiter' = r.limiter
           /\ last' = IF r.outcome # "ok"
                      THEN [Step("verifyDocument", "call", r.outcome)
                              EXCEPT !.doc = document]
                      ELSE [Step("verifyDocument", "call", "ok")
                              EXCEPT !.doc = document,
                                     !.value = Some(validate(document, context))]
           /\ UNCHANGED <<requestLimiter, builder, options, wallClock, logicalClock, identity, keyBuf, mnemonic, chainState,
                          clockRef, ownClock, validator, pending, maxReturned,
                          destroyCalled, createFailed, imports>>

\* the documents verifyDocument is handed: those of the chain, which
\* createDocument returned on this facade or on the facade whose state was
\* imported; no object once the facade holds no chain
ChainDocuments ==
  IF chainState = Null THEN {Null}
  ELSE { Some(Val(chainState).documents[i]) :
           i \in 1..Len(Val(chainState).documents) }

\* the documents of the chain that the importState just made replaced
ReplacedDocuments ==
  IF last.op = "importState" /\ last.outcome = "ok"
  THEN { Some(Val(last.pre).documents[i]) :
           i \in 1..Len(Val(last.pre).documents) }
  ELSE {}

\* getChainState(): getState() reads the forks getter, which rebuilds the cache
getChainState ==
  IF ~assertInitialized THEN NotInitialized("getChainState")
  ELSE /\ chainState' = Some(forksGetter(Val(chainState)))
       /\ pending' = IF chainState' = chainState THEN pending ELSE NotAlone(pending)
       /\ last' = [Step("getChainState", "call", "ok")
                     EXCEPT !.value = Some(getState(Val(chainState)))]
       /\ UNCHANGED <<requestLimiter, builder, options, wallClock, rateLimiter, logicalClock, identity, keyBuf, mnemonic, clockRef, ownClock, validator,
                      maxReturned, destroyCalled, createFailed, imports>>

\* detectFork(): ForkDetector.scan stamped with the current logical time
detectForkOp ==
  IF ~assertInitialized THEN NotInitialized("detectFork")
  ELSE LET forks == scan(Val(chainState).documents)
       IN  Returns("detectFork",
                   [k \in 1..Len(forks) |->
                      [forks[k] EXCEPT !.detectedAt = clockCurrent, !.resolved = FALSE]])

exportIdentity ==
  IF ~assertInitialized THEN NotInitialized("exportIdentity")
  ELSE IF mnemonic = Null
  THEN /\ last' = Step("exportIdentity", "call", "Error")
       /\ UNCHANGED <<requestLimiter, builder, options, wallClock, rateLimiter, logicalClock, identity, keyBuf, mnemonic, chainState, clockRef, ownClock,
                      validator, pending, maxReturned, destroyCalled,
                      createFailed, imports>>
  ELSE Returns("exportIdentity",
               [mnemonic |-> Val(mnemonic), chainId |-> Val(chainState).chainId])

getPublicKey ==
  IF ~assertInitialized THEN NotInitialized("getPublicKey")
  ELSE Returns("getPublicKey", Val(identity).publicKey)

getChainId ==
  IF ~assertInitialized THEN NotInitialized("getChainId")
  ELSE Returns("getChainId", Val(chainState).chainId)

\* exportState(): returns the bytes (kept, as history, with the chain state
\* they were taken from)
exportState ==
  IF ~assertInitialized THEN NotInitialized("exportState")
  ELSE /\ last' = [Step("exportState", "call", "ok")
                     EXCEPT !.value = Some(export(Val(chainState))),
                            !.snap = Some(ChainSnap(Val(chainState)))]
       /\ UNCHANGED <<requestLimiter, builder, options, wallClock, rateLimiter, logicalClock, identity, keyBuf, mnemonic, chainState, clockRef, ownClock,
                      validator, pending, maxReturned, destroyCalled, createFailed, imports>>

\* a faulty importState: the manager is replaced before the blob is checked
importStateClearsFirst(item) ==
  IF ~assertInitialized THEN NotInitialized("importState")
  ELSE LET r == import(item.data, Val(chainState).chainId)
       IN  IF r.outcome # "ok"
           THEN /\ chainState' = Some(newManager(Val(chainState).chainId, 1))
                /\ pending' = NotAlone(pending)
                /\ last' = [Step("importState", "call", r.outcome)
                              EXCEPT !.pre = Some(FacadeSnap)]
                /\ UNCHANGED <<requestLimiter, builder, options, wallClock, rateLimiter, logicalClock, identity, keyBuf, mnemonic, clockRef, ownClock,
                               validator, maxReturned, destroyCalled, createFailed,
                               imports>>
           ELSE /\ imports < MaxImports
                /\ imports' = imports + 1
                /\ chainState' = r.mgr
                /\ clockRef' = "chain"
                /\ ownClock' = 0
                /\ pending' = NotAlone(pending)
                /\ last' = [Step("importState", "call", "ok")
                              EXCEPT !.snap = item.snap, !.pre = Some(FacadeSnap)]
                /\ UNCHANGED <<requestLimiter, builder, options, wallClock, rateLimiter, logicalClock, identity, keyBuf, mnemonic, validator,
                               maxReturned, destroyCalled, createFailed>>

\* importState(state): ChainStateManager.import, then #chainState and #clock
\* are set to the imported manager and to that manager's clock
importState(item) ==
  IF ~assertInitialized THEN NotInitialized("importState")
  ELSE LET r == import(item.data, Val(chainState).chainId)
       IN  IF r.outcome # "ok"
           THEN /\ last' = [Step("importState", "call", r.outcome)
                              EXCEPT !.pre = Some(FacadeSnap)]
                /\ UNCHANGED <<requestLimiter, builder, options, wallClock, rateLimiter, logicalClock, identity, keyBuf, mnemonic, chainState, clockRef,
                               ownClock, validator, pending, maxReturned,
                               destroyCalled, createFailed, imports>>
           ELSE /\ imports < MaxImports
                /\ imports' = imports + 1
                /\ chainState' = r.mgr
                /\ clockRef' = "chain"
                /\ ownClock' = 0
                /\ pending' = NotAlone(pending)
                /\ last' = [Step("importState", "call", "ok")
                              EXCEPT !.snap = item.snap, !.pre = Some(FacadeSnap)]
                /\ UNCHANGED <<requestLimiter, builder, options, wallClock, rateLimiter, logicalClock, identity, keyBuf, mnemonic, validator,
                               maxReturned, destroyCalled, createFailed>>

\* a faulty destroy: the key is zeroized but the references are kept
destroyKeepsReferences ==
  /\ keyBuf' = IF identity # Null THEN zeroize(keyBuf) ELSE keyBuf
  /\ destroyCalled' = TRUE
  /\ last' = Step("destroy", "call", "ok")
  /\ UNCHANGED <<requestLimiter, builder, options, wallClock, rateLimiter, logicalClock, identity, mnemonic, chainState, clockRef, ownClock, validator,
                 pending, maxReturned, createFailed, imports>>

\* destroy()
destroy ==
  /\ keyBuf' = IF identity # Null THEN zeroize(keyBuf) ELSE keyBuf
  /\ identity' = Null
  /\ chainState' = Null
  /\ clockRef' = "null"
  /\ ownClock' = 0
  /\ validator' = Null
  /\ mnemonic' = Null
  /\ destroyCalled' = TRUE
  /\ last' = Step("destroy", "call", "ok")
  /\ UNCHANGED <<requestLimiter, builder, options, wallClock, rateLimiter, logicalClock, pending, maxReturned, createFailed, imports>>

\* The caller reads the identity, the public key and the chain id, and
\* hands over a blob that importState refuses, while no createDocument of
\* a usable facade is suspended: these calls leave the facade as it is.
\* Every other operation is invoked at any point, between the steps of the
\* suspended calls too.
Quiet == assertInitialized => pending = <<>>

Next ==
  \/ \E type \in DocTypes, payload \in Payloads : createDocument(type, payload)
  \/ createDocumentSign
  \/ \E i \in 1..MaxPending, sig \in SignResults : createDocumentResume(i, sig)
  \/ \E document \in ChainDocuments \cup ReplacedDocuments :
       verifyDocument(document, 0)
  \/ getChainState
  \/ detectForkOp
  \/ Quiet /\ exportIdentity
  \/ Quiet /\ getPublicKey
  \/ Quiet /\ getChainId
  \/ exportState
  \/ \E item \in JustExported \cup SequentialItems : importState(item)
  \/ \E item \in ForeignItems : Quiet /\ importState(item)
  \/ destroy

Spec == Init /\ [][Next]_vars


(***************************************************************************)
(* Verification on its own: a facade made with or without a rate limit     *)
(* (NewZoneCore.create(mnemonic, {rateLimit})) that is handed documents of *)
(* any shape, and a DocumentValidator called with contexts of any shape.   *)
(***************************************************************************)
\* largest limit a facade is configured with
MaxLimit == 2

\* the member of a document a caller rewrites, and how
Fields == {"payload", "type", "parent_hash", "logical_time", "id", "chain_id"}
Variants == {"other", "missing"}

\* doc with one member replaced by another value or taken away, the
\* signature left as it was
tamper(doc, field, variant) ==
  CASE field = "payload" ->
         [doc EXCEPT !.payload = IF variant = "missing" THEN "absent"
                                 ELSE IF @ = "empty" THEN "other" ELSE "empty"]
    [] field = "type" ->
         [doc EXCEPT !.type = IF variant = "missing" THEN ""
                              ELSE IF @ = "test" THEN "test2" ELSE "test"]
    [] field = "parent_hash" ->
         [doc EXCEPT !.parent_hash = IF variant = "missing" THEN MissingHash
                                     ELSE IF @ = ZeroHash THEN doc.id
                                     ELSE ZeroHash]
    [] field = "logical_time" ->
         IF variant = "missing"
         THEN [doc EXCEPT !.logical_time = 0, !.logical_time_type = "undefined"]
         ELSE [doc EXCEPT !.logical_time = @ + 1]
    [] field = "id" ->
         [doc EXCEPT !.id = IF variant = "missing" THEN MissingHash
                            ELSE deriveDocumentId(doc.chain_id, @,
                                                  doc.logical_time)]
    [] field = "chain_id" ->
         [doc EXCEPT !.chain_id = IF variant = "missing" THEN ""
                                  ELSE IF @ = ChainId THEN OtherChainId
                                  ELSE ChainId]

\* the document an awaited createDocument("test", {}) returns at time t on a
\* new facade
createdDocument(t) ==
  LET d == builtDocument(ChainId, ZeroHash, t, "test", "empty", 0)
  IN  signed(d, sign("sig64", serialize(d), "keyBuf"))

\* the rewritten copies of doc: each member replaced or taken away, and the
\* payload replaced by one that holds a function
Tampered(doc) ==
  { tamper(doc, f, v) : f \in Fields, v \in Variants }
  \cup { [doc EXCEPT !.payload = "function"] }

\* documents that fail one check of one layer, and documents whose
\* logical_time is logical_time + 1/2
Malformed(doc) ==
  { [doc EXCEPT !.logical_time_half = TRUE],
    [doc EXCEPT !.logical_time = 0, !.logical_time_half = TRUE],
    [doc EXCEPT !.logical_time = 0],
    [doc EXCEPT !.logical_time_type = "string"],
    [doc EXCEPT !.version = "2.0"],
    [doc EXCEPT !.version = ""],
    [doc EXCEPT !.crypto_suite = "other"],
    [doc EXCEPT !.crypto_suite = ""],
    [doc EXCEPT !.parent_hash = NotHex],
    [doc EXCEPT !.signature = Null],
    [doc EXCEPT !.signature = <<"hex", 0, "pk", serialize(doc)>>],
    [doc EXCEPT !.signature = <<"hex", 2 * SIGNATURE_LENGTH - 1, "pk",
                                 serialize(doc)>>],
    [doc EXCEPT !.signature = toHex(sign("sig63", serialize(doc), "keyBuf"))],
    [doc EXCEPT !.signature = toHex(sign("sig64", serialize(doc), "other"))],
    [doc EXCEPT !.payload = "unserializable"] }

\* documents the holder of the key signed over members of their choosing:
\* the logical_time is the current time of the contexts, and that + 1/2
SignedOver(doc) ==
  { signed(d, sign("sig64", serialize(d), "keyBuf")) :
      d \in { [doc EXCEPT !.logical_time = 1],
              [doc EXCEPT !.logical_time = 1, !.logical_time_half = TRUE] } }

InputDocuments ==
  {Null} \cup { Some(d) : d \in {createdDocument(2)}
                               \cup Tampered(createdDocument(2))
                               \cup Malformed(createdDocument(2))
                               \cup SignedOver(createdDocument(2)) }

\* the contexts validate is called with; the last is quickValidate's
Contexts ==
  { [currentTime |-> 1, trustedKeys |-> ks, policyEngine |-> e] :
      ks \in {<<>>, <<"pk:other">>, <<"pk:other", "pk">>},
      e \in {"none", "allow", "deny", "throws"} }
  \cup { [currentTime |-> 0, trustedKeys |-> <<"pk">>, policyEngine |-> "none"] }

\* options.rateLimit: not enabled, or enabled with a limit
InitVerify ==
  \E limiter \in {Null} \cup { Some([limit |-> l, requests |-> 0]) :
                                 l \in 1..MaxLimit } :
    initialize(limiter)

\* resetRateLimit(): this.#rateLimiter?.reset()
resetRateLimit ==
  /\ rateLimiter' = IF rateLimiter = Null THEN Null
                    ELSE Some([Val(rateLimiter) EXCEPT !.requests = 0])
  /\ last' = Step("resetRateLimit", "call", "ok")
  /\ UNCHANGED <<requestLimiter, builder, options, wallClock, logicalClock, identity, keyBuf, mnemonic, chainState,
                 clockRef, ownClock, validator, pending, maxReturned,
                 destroyCalled, createFailed, imports>>

\* new DocumentValidator().validate(document, context), called directly
validateCall(document, context) ==
  /\ last' = [Step("validate", "call", "ok")
                EXCEPT !.doc = document,
                       !.pre = Some(context),
                       !.value = Some(validate(document, context))]
  /\ UNCHANGED <<requestLimiter, builder, options, wallClock, rateLimiter, logicalClock, identity, keyBuf, mnemonic,
                 chainState, clockRef, ownClock, validator, pending,
                 maxReturned, destroyCalled, createFailed, imports>>

NextVerify ==
  \/ \E document \in InputDocuments, kept \in 0..MaxLimit :
       verifyDocument(document, kept)
  \/ resetRateLimit
  \/ \E document \in InputDocuments, context \in Contexts :
       validateCall(document, context)
  \/ destroy

SpecVerify == InitVerify /\ [][NextVerify]_vars


(***************************************************************************)
(* Signing on its own: one facade whose createDocument calls are awaited   *)
(* one after the other, with a signing backend that hands back a value of  *)
(* any length or throws, and verifyDocument of the documents of the chain  *)
(* and of rewritten copies of them.                                        *)
(***************************************************************************)
BackendResults == {"sig64", "sig63", "sig65", "sigEmpty", "throws"}

\* the payloads createDocument is called with: besides those above, one that
\* holds a function, whose serialization is a text that is not JSON
SigningPayloads == Payloads \cup {"function"}

\* the documents createDocument has returned, and their rewritten copies
ReturnedDocuments ==
  { Val(chainState).documents[i] : i \in 1..Len(Val(chainState).documents) }
RewrittenDocuments ==
  UNION { Tampered(d) : d \in ReturnedDocuments }

NextSigning ==
  \/ \E type \in DocTypes, payload \in SigningPayloads :
       pending = <<>> /\ createDocument(type, payload)
  \/ createDocumentSign
  \/ \E sig \in BackendResults : createDocumentResume(1, sig)
  \/ \E d \in ReturnedDocuments \cup RewrittenDocuments :
       verifyDocument(Some(d), 0)

SpecSigning == Init /\ [][NextSigning]_vars


(***************************************************************************)
(* ForkDetector.scan on its own, handed any list of documents that differ  *)
(* in id.                                                                  *)
(***************************************************************************)
\* most documents in a list handed to scan
MaxScanDocs == 3

\* document k of a list: its id is its own, its parent is the zero hash or
\* one of two other hashes
scanDocument(k, parentHash, logicalTime) ==
  [newDocument(ChainId, parentHash, logicalTime, "test", "empty")
     EXCEPT !.id = <<ChainId, <<"doc", k>>, 0>>]

ScanParents == {ZeroHash, <<ChainId, ZeroHash, 1>>, <<ChainId, ZeroHash, 2>>}

ScanInputs ==
  UNION { { [k \in 1..n |-> scanDocument(k, c[k][1], c[k][2])] :
              c \in [1..n -> ScanParents \X (1..2)] } :
          n \in 0..MaxScanDocs }

\* ForkDetector.scan(documents), called directly
scanCall(documents) ==
  /\ last' = [Step("scan", "call", "ok")
                EXCEPT !.doc = Some(documents),
                       !.value = Some(scan(documents))]
  /\ UNCHANGED <<requestLimiter, builder, options, wallClock, rateLimiter, logicalClock, identity, keyBuf, mnemonic,
                 chainState, clockRef, ownClock, validator, pending,
                 maxReturned, destroyCalled, createFailed, imports>>

\* ForkDetector.isForkActive(fork, currentDocuments): for every branch id of
\* the fork, one for the branch being among the current ids and one for
\* every current document whose parent_hash is any branch of the fork
isForkActive(fork, currentDocuments) ==
  LET currentIds == { currentDocuments[j].id : j \in DOMAIN currentDocuments }
      branches   == { fork.documents[i] : i \in DOMAIN fork.documents }
      present    == Cardinality({ i \in DOMAIN fork.documents :
                                    fork.documents[i] \in currentIds })
      referring  == Cardinality({ j \in DOMAIN currentDocuments :
                                    currentDocuments[j].parent_hash \in branches })
      activeCount == present + Len(fork.documents) * referring
  IN  activeCount > 1

\* three documents on the zero hash, two children of the first and one of
\* the second
BranchDocuments ==
  LET branch(t) == newDocument(ChainId, ZeroHash, t, "test", "empty")
  IN  << branch(1), branch(2), branch(3),
         newDocument(ChainId, branch(1).id, 2, "test", "empty"),
         newDocument(ChainId, branch(1).id, 3, "test", "empty"),
         newDocument(ChainId, branch(2).id, 3, "test", "empty") >>

\* ForkDetector.isForkActive called with a fork that scan reported for the
\* first two or three branch documents and any of BranchDocuments as the
\* current documents
isForkActiveCall(branches, kept) ==
  LET fork == scan(SubSeq(BranchDocuments, 1, branches))[1]
      currentDocuments == SelectSeq(BranchDocuments, LAMBDA d : d \in kept)
  IN  /\ last' = [Step("isForkActive", "call", "ok")
                    EXCEPT !.pre = Some(fork),
                           !.doc = Some(currentDocuments),
                           !.value = Some(isForkActive(fork, currentDocuments))]
      /\ UNCHANGED <<requestLimiter, builder, options, wallClock, rateLimiter, logicalClock, identity,
                     keyBuf, mnemonic, chainState, clockRef, ownClock,
                     validator, pending, maxReturned, destroyCalled,
                     createFailed, imports>>

NextScan ==
  \/ \E documents \in ScanInputs : scanCall(documents)
  \/ \E branches \in 2..3,
        kept \in SUBSET { BranchDocuments[i] : i \in DOMAIN BranchDocuments } :
       isForkActiveCall(branches, kept)

SpecScan == Init /\ [][NextScan]_vars


(***************************************************************************)
(* identity/logical-time  LogicalClock on its own.                         *)
(* A number handed to the clock is [n, half, nan]: the integer n, or       *)
(* n + 1/2, or NaN when nan.  The clock is [current, half, nan, frozen],   *)
(* its value current (+ 1/2 when half), or NaN.  MaxTime stands for        *)
(* LOGICAL_TIME.MAX.                                                       *)
(***************************************************************************)
NaN == [n |-> 0, half |-> FALSE, nan |-> TRUE]

Numbers ==
  { [n |-> k, half |-> h, nan |-> FALSE] : k \in 0..(MaxTime + 1),
                                           h \in BOOLEAN } \cup {NaN}

\* a < b, a <= b for such numbers: every comparison with NaN is false
lessThan(a, b) ==
  /\ ~a.nan
  /\ ~b.nan
  /\ a.n < b.n \/ (a.n = b.n /\ ~a.half /\ b.half)
atMost(a, b) ==
  /\ ~a.nan
  /\ ~b.nan
  /\ a.n < b.n \/ (a.n = b.n /\ (a.half => b.half))

\* the clock's #current as a number
currentOf(clock) ==
  [n |-> clock.current, half |-> clock.half, nan |-> clock.nan]

clockUnchanged ==
  UNCHANGED <<requestLimiter, builder, options, wallClock, rateLimiter, identity, keyBuf, mnemonic,
              chainState, clockRef,
              ownClock, validator, pending, maxReturned, destroyCalled,
              createFailed, imports>>

\* the constructor's checks: !Number.isInteger(initial), then
\* initial < LOGICAL_TIME.MIN
constructorThrows(initial) ==
  IF initial.half \/ initial.nan THEN TRUE
  ELSE initial.n < LOGICAL_TIME_MIN

\* new LogicalClock(initial)
newLogicalClock(initial) ==
  /\ IF constructorThrows(initial)
     THEN /\ last' = Step("new LogicalClock", "call", "LogicalTimeViolation")
          /\ logicalClock' = logicalClock
     ELSE /\ last' = Step("new LogicalClock", "call", "ok")
          /\ logicalClock' = Some([current |-> initial.n, half |-> FALSE,
                                   nan |-> FALSE, frozen |-> FALSE])
  /\ clockUnchanged

\* a tick() that does not look at the frozen flag
clockTickIgnoresFrozen ==
  /\ logicalClock # Null
  /\ LET clock == Val(logicalClock)
     IN  IF ~clock.nan /\ tickThrows(clock.current)
         THEN /\ last' = Step("tick", "call", "LogicalTimeViolation")
              /\ logicalClock' = logicalClock
         ELSE IF clock.nan
         THEN /\ last' = [Step("tick", "call", "ok") EXCEPT !.value = Some(NaN)]
              /\ logicalClock' = logicalClock
         ELSE /\ last' = [Step("tick", "call", "ok")
                            EXCEPT !.value =
                              Some([currentOf(clock) EXCEPT !.n = tick(@)])]
              /\ logicalClock' = Some([clock EXCEPT !.current = tick(@)])
  /\ clockUnchanged

\* tick(): this.#current++; return this.#current
clockTick ==
  /\ logicalClock # Null
  /\ LET clock == Val(logicalClock)
     IN  IF clock.frozen \/ (~clock.nan /\ tickThrows(clock.current))
         THEN /\ last' = Step("tick", "call", "LogicalTimeViolation")
              /\ logicalClock' = logicalClock
         ELSE IF clock.nan
         THEN \* NaN >= max is false and NaN + 1 is NaN
              /\ last' = [Step("tick", "call", "ok") EXCEPT !.value = Some(NaN)]
              /\ logicalClock' = logicalClock
         ELSE /\ last' = [Step("tick", "call", "ok")
                            EXCEPT !.value =
                              Some([currentOf(clock) EXCEPT !.n = tick(@)])]
              /\ logicalClock' = Some([clock EXCEPT !.current = tick(@)])
  /\ clockUnchanged

\* sync(lastLogicalTime)
clockSync(lastLogicalTime) ==
  /\ logicalClock # Null
  /\ LET clock == Val(logicalClock)
     IN  IF atMost(lastLogicalTime, currentOf(clock))
         THEN /\ last' = Step("sync", "call", "LogicalTimeViolation")
              /\ logicalClock' = logicalClock
         ELSE /\ last' = Step("sync", "call", "ok")
              /\ logicalClock' = Some([clock EXCEPT
                                         !.current = lastLogicalTime.n,
                                         !.half = lastLogicalTime.half,
                                         !.nan = lastLogicalTime.nan])
  /\ clockUnchanged

\* freeze()
clockFreeze ==
  /\ logicalClock # Null
  /\ last' = Step("freeze", "call", "ok")
  /\ logicalClock' = Some([Val(logicalClock) EXCEPT !.frozen = TRUE])
  /\ clockUnchanged

\* unfreeze()
clockUnfreeze ==
  /\ logicalClock # Null
  /\ last' = Step("unfreeze", "call", "ok")
  /\ logicalClock' = Some([Val(logicalClock) EXCEPT !.frozen = FALSE])
  /\ clockUnchanged

NextClock ==
  \/ \E initial \in Numbers : newLogicalClock(initial)
  \/ clockTick
  \/ \E lastLogicalTime \in Numbers : clockSync(lastLogicalTime)
  \/ clockFreeze
  \/ clockUnfreeze

SpecClock == Init /\ [][NextClock]_vars


(***************************************************************************)
(* Creation on its own: NewZoneCore.create(mnemonic, options) called with  *)
(* options of any shape.  The variables hold the instance the latest call  *)
(* constructed, whether it was returned or not.                            *)
(***************************************************************************)
\* options.initialTime: absent, or a number
InitialTimes ==
  {Null} \cup { Some(x) : x \in Numbers \cup {[n |-> -1, half |-> FALSE,
                                                nan |-> FALSE]} }

\* options.chainId: absent, or a string
ChainIdOptions == {Null, Some(""), Some(OtherChainId)}

\* options.rateLimit: absent, or { enabled: true, limit, windowMs }
RateLimitOptions ==
  {Null} \cup { Some([limit |-> l, windowMs |-> w]) :
                  l \in 0..MaxLimit, w \in 0..1 }

\* options.policyEngine: absent, or an evaluator named by what it does
PolicyEngineOptions == {Null, Some("allow"), Some("deny"), Some("throws")}

\* the options create is called with; the evaluator is varied in SpecFacade
Options ==
  [initialTime : InitialTimes, chainId : ChainIdOptions,
   rateLimit : RateLimitOptions, policyEngine : {Null}]

\* x || 1 for a number x: 0 and NaN are falsy
orOne(x) ==
  IF x = Null THEN [n |-> 1, half |-> FALSE, nan |-> FALSE]
  ELSE IF Val(x).nan \/ (Val(x).n = 0 /\ ~Val(x).half)
  THEN [n |-> 1, half |-> FALSE, nan |-> FALSE]
  ELSE Val(x)

\* new RateLimiter({limit, windowMs}) throws
rateLimiterThrows(config) == config.limit < 1 \/ config.windowMs < 1

\* a faulty catch block: the error is rethrown and destroy is not called
initializeCatchRethrowsOnly(key, chainId, opts, outcome) ==
  /\ keyBuf' = key
  /\ identity' = Some([publicKey |-> "pk", privateKey |-> "keyBuf",
                       chainId |-> ChainId])
  /\ chainState' = IF constructorThrows(orOne(opts.initialTime)) THEN Null
                   ELSE Some(newManager(chainId, orOne(opts.initialTime).n))
  /\ clockRef' = IF chainState' = Null THEN "null" ELSE "own"
  /\ ownClock' = IF chainState' = Null THEN 0
                 ELSE orOne(opts.initialTime).n
  /\ validator' = IF chainState' = Null THEN Null
                  ELSE Some("DocumentValidator")
  /\ mnemonic' = Some(Mnemonic12)
  /\ destroyCalled' = FALSE
  /\ last' = [Step("create", "call", outcome) EXCEPT !.pre = Some(opts)]

\* initialize(): catch (e) { this.destroy(); throw e; } once the identity,
\* with its private key, has been derived
initializeCatch(key, chainId, opts, outcome) ==
  /\ keyBuf' = zeroize(key)
  /\ identity' = Null
  /\ chainState' = Null
  /\ clockRef' = "null"
  /\ ownClock' = 0
  /\ validator' = Null
  /\ mnemonic' = Null
  /\ destroyCalled' = TRUE
  /\ last' = [Step("create", "call", outcome) EXCEPT !.pre = Some(opts)]

\* new NewZoneCore(mnemonic, opts) with a valid mnemonic: the phrase and the
\* options are kept and nothing is derived, so the instance has no identity
\* (and no private key buffer), chain state, clock or validator
NewZoneCore(opts) ==
  /\ mnemonic' = Some(Mnemonic12)
  /\ options' = opts
  /\ identity' = Null
  /\ keyBuf' = <<>>
  /\ chainState' = Null
  /\ clockRef' = "null"
  /\ ownClock' = 0
  /\ validator' = Null
  /\ rateLimiter' = Null
  /\ destroyCalled' = FALSE
  /\ pending' = <<>>
  /\ maxReturned' = 0
  /\ createFailed' = FALSE
  /\ imports' = 0
  /\ last' = [Step("new", "call", "ok") EXCEPT !.pre = Some(opts)]
  /\ UNCHANGED <<requestLimiter, builder, logicalClock, wallClock>>

\* NewZoneCore.create(mnemonic, opts) with a valid mnemonic
create(opts) ==
  \E key \in KeyPatterns :
    LET initial == orOne(opts.initialTime)
        chainId == IF opts.chainId = Null \/ opts.chainId = Some("")
                   THEN ChainId ELSE Val(opts.chainId)
    IN  /\ IF constructorThrows(initial)
           THEN /\ initializeCatch(key, chainId, opts,
                                   "LogicalTimeViolation")
                /\ rateLimiter' = Null
           ELSE IF opts.rateLimit # Null
                   /\ rateLimiterThrows(Val(opts.rateLimit))
           THEN /\ initializeCatch(key, chainId, opts, "ValidationFailed")
                /\ rateLimiter' = Null
           ELSE /\ keyBuf' = key
                /\ identity' = Some([publicKey |-> "pk",
                                     privateKey |-> "keyBuf",
                                     chainId |-> ChainId])
                /\ ownClock' = initial.n
                /\ clockRef' = "own"
                /\ chainState' = Some(newManager(chainId, initial.n))
                /\ validator' = Some("DocumentValidator")
                /\ mnemonic' = Some(Mnemonic12)
                /\ destroyCalled' = FALSE
                /\ rateLimiter' =
                     IF opts.rateLimit = Null THEN Null
                     ELSE Some([limit |-> Val(opts.rateLimit).limit,
                                requests |-> 0])
                /\ last' = [Step("create", "call", "ok")
                              EXCEPT !.pre = Some(opts)]
        /\ pending' = <<>>
        /\ maxReturned' = 0
        /\ createFailed' = FALSE
        /\ imports' = 0
        /\ options' = opts
        /\ UNCHANGED <<requestLimiter, builder, logicalClock, wallClock>>

NextCreate ==
  \/ \E opts \in Options : NewZoneCore(opts)
  \/ \E opts \in Options : create(opts)
  \/ getChainState
  \/ getChainId
  \/ getPublicKey
  \/ exportIdentity
  \/ destroy

SpecCreate == Init /\ [][NextCreate]_vars


(***************************************************************************)
(* IdentityDerivation.deriveDocumentId on its own, called with logical     *)
(* times on both sides of the Uint32 range.                                *)
(***************************************************************************)
DeriveChainIds == {ChainId, OtherChainId}
DeriveParents ==
  {ZeroHash} \cup { deriveDocumentId(ChainId, ZeroHash, t) : t \in 1..2 }
DeriveTimes == 0..(2 * Uint32Range + 1)

deriveDocumentIdCall(chainId, parentHash, logicalTime) ==
  /\ last' = [Step("deriveDocumentId", "call", "ok")
                EXCEPT !.value = Some(deriveDocumentId(chainId, parentHash,
                                                       logicalTime)),
                       !.pre = Some([chainId |-> chainId,
                                     parentHash |-> parentHash,
                                     logicalTime |-> logicalTime])]
  /\ UNCHANGED <<requestLimiter, builder, options, wallClock, rateLimiter, logicalClock, identity, keyBuf, mnemonic,
                 chainState, clockRef, ownClock, validator, pending,
                 maxReturned, destroyCalled, createFailed, imports>>

NextDerive ==
  \E chainId \in DeriveChainIds, parentHash \in DeriveParents,
     logicalTime \in DeriveTimes :
    deriveDocumentIdCall(chainId, parentHash, logicalTime)

SpecDerive == Init /\ [][NextDerive]_vars


(***************************************************************************)
(* chain/state  ChainStateManager on its own: chainState holds a manager   *)
(* that a caller appends documents to, resets, reads, exports, replaces by *)
(* an imported one, and whose clock (manager.clock) the caller ticks,      *)
(* syncs, freezes and unfreezes.                                           *)
(***************************************************************************)
\* largest logical_time of a document handed to append
MaxManagerTime == 2

\* documents handed to append: a first document in two payloads (their id,
\* derived from chain, parent and time, is the same), its siblings of later
\* times, its child, and a document of another chain
ManagerDocuments ==
  { newDocument(ChainId, ZeroHash, 1, "test", payload) :
      payload \in {"empty", "full"} }
  \cup { newDocument(ChainId, ZeroHash, t, "test", "empty") :
           t \in 2..MaxManagerTime }
  \cup {newDocument(ChainId, deriveDocumentId(ChainId, ZeroHash, 1), 2,
                    "test", "empty"),
        newDocument(OtherChainId, ZeroHash, 1, "test", "empty")}

\* state bytes of another chain, and state bytes of this chain that export
\* did not write: one document under two keys that are not its id and one
\* fork under two keys that are not its parent hash; no documents and a
\* last hash that is not the zero hash; a fork entry marked resolved
ManagerForeignItems ==
  LET A == newDocument(ChainId, ZeroHash, 1, "test", "empty")
      B == newDocument(ChainId, ZeroHash, 2, "test", "empty")
      C == newDocument(ChainId, A.id, 2, "test", "empty")
      f == [parentHash |-> ZeroHash, documents |-> <<A.id, B.id>>,
            detectedAt |-> 2, resolved |-> FALSE]
  IN  { [data |-> export(newManager(OtherChainId, 1)), snap |-> Null,
         reported |-> Null],
        [data |-> [export(newManager(ChainId, 2)) EXCEPT
                     !.lastHash = A.id,
                     !.documents = << <<B.id, A>>, <<C.id, A>> >>,
                     !.forks = << <<A.id, f>>, <<B.id, f>> >>],
         snap |-> Null, reported |-> Null],
        [data |-> [export(newManager(ChainId, 1)) EXCEPT !.lastHash = A.id],
         snap |-> Null, reported |-> Null],
        [data |-> [export(newManager(ChainId, 1)) EXCEPT
                     !.forks = << <<ZeroHash, [f EXCEPT !.resolved = TRUE]>> >>],
         snap |-> Null, reported |-> Null] }

managerUnchanged ==
  UNCHANGED <<requestLimiter, builder, options, wallClock, rateLimiter, logicalClock, identity, keyBuf, mnemonic, clockRef,
              ownClock, validator, pending, maxReturned, destroyCalled,
              createFailed, imports>>

\* manager.append(document)
managerAppend(document) ==
  /\ chainState' = Some(append(Val(chainState), document).mgr)
  /\ last' = [Step("append", "call", append(Val(chainState), document).outcome)
                EXCEPT !.doc = Some(document)]
  /\ managerUnchanged

\* manager.reset()
managerReset ==
  /\ chainState' = Some(reset(Val(chainState)))
  /\ last' = Step("reset", "call", "ok")
  /\ managerUnchanged

\* manager.forks
managerForks ==
  /\ chainState' = Some(forksGetter(Val(chainState)))
  /\ last' = [Step("forks", "call", "ok")
                EXCEPT !.value = Some(forksGetter(Val(chainState)).detectedForks)]
  /\ managerUnchanged

\* manager.getState()
managerGetState ==
  /\ chainState' = Some(forksGetter(Val(chainState)))
  /\ last' = [Step("getState", "call", "ok")
                EXCEPT !.value = Some(getState(Val(chainState)))]
  /\ managerUnchanged

\* manager.getDocument(id)
managerGetDocument(id) ==
  /\ last' = [Step("getDocument", "call", "ok")
                EXCEPT !.value = getDocument(Val(chainState), id)]
  /\ UNCHANGED chainState
  /\ managerUnchanged

\* manager.export(): the bytes, kept with the forks the manager reports at
\* that time
managerExport ==
  /\ last' = [Step("export", "call", "ok")
                EXCEPT !.value = Some(export(Val(chainState))),
                       !.snap = Some(ChainSnap(Val(chainState))),
                       !.pre = Some(forksGetter(Val(chainState)).detectedForks)]
  /\ UNCHANGED chainState
  /\ managerUnchanged

\* the bytes the latest step returned, when it was an export
ManagerJustExported ==
  IF last.op = "export"
  THEN { [data |-> Val(last.value), snap |-> last.snap,
           reported |-> last.pre] }
  ELSE {}

\* manager = ChainStateManager.import(data, chainId): on an error the caller
\* keeps the manager it has
managerImport(item, chainId) ==
  LET r == import(item.data, chainId)
  IN  /\ chainState' = IF r.outcome = "ok" THEN r.mgr ELSE chainState
      /\ last' = [Step("import", "call", r.outcome)
                    EXCEPT !.value = Some(item.data), !.snap = item.snap,
                           !.pre = item.reported]
      /\ managerUnchanged

\* manager.clock.freeze()
managerFreeze ==
  /\ chainState' = Some([Val(chainState) EXCEPT !.clockFrozen = TRUE])
  /\ last' = Step("freeze", "call", "ok")
  /\ managerUnchanged

\* manager.clock.unfreeze()
managerUnfreeze ==
  /\ chainState' = Some([Val(chainState) EXCEPT !.clockFrozen = FALSE])
  /\ last' = Step("unfreeze", "call", "ok")
  /\ managerUnchanged

\* manager.clock.tick()
managerTick ==
  LET mgr == Val(chainState)
  IN  /\ IF mgr.clockFrozen \/ tickThrows(mgr.clock)
         THEN /\ chainState' = chainState
              /\ last' = Step("tick", "call", "LogicalTimeViolation")
         ELSE /\ chainState' = Some([mgr EXCEPT !.clock = tick(@)])
              /\ last' = [Step("tick", "call", "ok")
                            EXCEPT !.value = Some(tick(mgr.clock))]
      /\ managerUnchanged

\* manager.clock.sync(lastLogicalTime), handed an integer
managerSync(lastLogicalTime) ==
  LET mgr == Val(chainState)
  IN  /\ IF lastLogicalTime <= mgr.clock
         THEN /\ chainState' = chainState
              /\ last' = Step("sync", "call", "LogicalTimeViolation")
         ELSE /\ chainState' = Some([mgr EXCEPT !.clock = lastLogicalTime])
              /\ last' = Step("sync", "call", "ok")
      /\ managerUnchanged

NextManager ==
  \/ \E document \in ManagerDocuments : managerAppend(document)
  \/ managerTick
  \/ \E lastLogicalTime \in 1..(MaxManagerTime + 1) :
       managerSync(lastLogicalTime)
  \/ managerReset
  \/ managerForks
  \/ managerGetState
  \/ managerGetDocument(deriveDocumentId(ChainId, ZeroHash, 1))
  \/ managerExport
  \/ \E item \in ManagerJustExported \cup ManagerForeignItems :
       managerImport(item, ChainId)
  \/ managerFreeze
  \/ managerUnfreeze

SpecManager == Init /\ [][NextManager]_vars


(***************************************************************************)
(* One facade created with or without a policy evaluator in its options,   *)
(* whose createDocument calls are awaited one after the other while the    *)
(* wall clock runs, and verifyDocument of the documents of its chain.      *)
(***************************************************************************)
\* latest reading of the wall clock, in milliseconds
MaxWallClock == 2

\* the wall clock moves on by a millisecond
timePasses ==
  /\ wallClock < MaxWallClock
  /\ wallClock' = wallClock + 1
  /\ UNCHANGED <<requestLimiter, builder, options, rateLimiter, logicalClock,
                 identity, keyBuf,
                 mnemonic, chainState, clockRef, ownClock, validator, pending,
                 maxReturned, destroyCalled, createFailed, imports, last>>

InitFacade ==
  \E policyEngine \in PolicyEngineOptions : initializeWith(Null, policyEngine)

NextFacade ==
  \/ \E type \in DocTypes, payload \in Payloads :
       pending = <<>> /\ createDocument(type, payload)
  \/ createDocumentSign
  \/ createDocumentResume(1, "sig64")
  \/ \E document \in ChainDocuments : verifyDocument(document, 0)
  \/ timePasses

SpecFacade == InitFacade /\ [][NextFacade]_vars


(***************************************************************************)
(* document/canonical.ts  DocumentBuilder on its own.  The builder's doc   *)
(* object is a function from the keys set on it to their values.           *)
(***************************************************************************)
\* the keys every object inherits: key in doc is true of them
ObjectPrototypeKeys == {"toString"}

\* the keys addField is called with
BuilderKeys ==
  {"version", "crypto_suite", "created_at", "type", "id", "note"}
    \cup ObjectPrototypeKeys

\* the keys of the setters: setType, setVersion, setId, setChainId,
\* setParentHash, setLogicalTime, setCryptoSuite, setCreatedAt, setPayload
SetterKeys ==
  {"type", "version", "id", "chain_id", "parent_hash", "logical_time",
   "crypto_suite", "created_at", "payload"}

\* the values a caller hands over for a key
BuilderValues(key) ==
  CASE key = "created_at"   -> {toISOString(MaxWallClock)}
    [] key = "version"      -> {DOCUMENT_VERSION, "other"}
    [] key = "crypto_suite" -> {CRYPTO_SUITE, "other", ""}
    [] key = "id"           -> {deriveDocumentId(ChainId, ZeroHash, 1)}
    [] key = "chain_id"     -> {ChainId}
    [] key = "parent_hash"  -> {ZeroHash}
    [] key = "logical_time" -> {0, 1}
    [] key = "payload"      -> {"unserializable", "function"}
    [] OTHER                -> {"test"}

\* this.doc[key] = value
assign(doc, key, value) ==
  [k \in DOMAIN doc \cup {key} |-> IF k = key THEN value ELSE doc[k]]

builderUnchanged ==
  UNCHANGED <<requestLimiter, options, wallClock, rateLimiter, logicalClock, identity, keyBuf,
              mnemonic, chainState, clockRef, ownClock, validator, pending,
              maxReturned, destroyCalled, createFailed, imports>>

\* new DocumentBuilder()
newDocumentBuilder ==
  /\ builder' = Some([k \in {"version", "crypto_suite", "created_at"} |->
                        CASE k = "version"      -> DOCUMENT_VERSION
                          [] k = "crypto_suite" -> CRYPTO_SUITE
                          [] k = "created_at"   -> toISOString(wallClock)])
  /\ last' = Step("new DocumentBuilder", "call", "ok")
  /\ builderUnchanged

\* the setters but setSignature: this.doc.<key> = value
builderSet(key, value) ==
  /\ builder # Null
  /\ builder' = Some(assign(Val(builder), key, value))
  /\ last' = [Step("set", "call", "ok") EXCEPT !.doc = Some(<<key, value>>)]
  /\ builderUnchanged

\* setSignature(signature): a string is kept, bytes are kept as their hex
\* text
setSignature(signature) ==
  /\ builder # Null
  /\ builder' = Some(assign(Val(builder), "signature",
                            IF signature.isString THEN signature.value
                            ELSE toHex(signature.value)))
  /\ last' = Step("setSignature", "call", "ok")
  /\ builderUnchanged

\* this.doc read as a document: a member that is not set is undefined
builderDoc(doc) ==
  LET get(key, undefined) == IF key \in DOMAIN doc THEN doc[key] ELSE undefined
  IN  [type         |-> get("type", ""),
       version      |-> get("version", ""),
       id           |-> get("id", MissingHash),
       chain_id     |-> get("chain_id", ""),
       created_at   |-> IF "created_at" \in DOMAIN doc
                        THEN Some(doc["created_at"]) ELSE Null,
       parent_hash  |-> get("parent_hash", MissingHash),
       logical_time |-> get("logical_time", 0),
       logical_time_half |-> FALSE,
       logical_time_type |-> IF "logical_time" \in DOMAIN doc THEN "number"
                             ELSE "undefined",
       crypto_suite |-> get("crypto_suite", ""),
       payload      |-> get("payload", "absent"),
       signature    |-> get("signature", Null)]

\* build(): validate(), then the id is derived when none is set and kept in
\* this.doc, then the document is canonicalized and returned; when
\* canonicalize throws, the derived id stays in this.doc
builderBuild ==
  /\ builder # Null
  /\ LET d == builderDoc(Val(builder))
         outcome == build(d)
         doc == IF /\ d.id = MissingHash
                   /\ d.chain_id # ""
                   /\ d.parent_hash # MissingHash
                   /\ ~noLogicalTime(d)
                THEN assign(Val(builder), "id",
                            deriveDocumentId(d.chain_id, d.parent_hash,
                                             d.logical_time))
                ELSE Val(builder)
     IN  IF outcome \in {"ok", "NonCanonicalJson", "SyntaxError"}
         THEN /\ builder' = Some(doc)
              /\ last' = [Step("build", "call", outcome)
                            EXCEPT !.pre = builder,
                                   !.value = IF outcome = "ok" THEN Some(doc)
                                             ELSE Null]
         ELSE /\ builder' = builder
              /\ last' = [Step("build", "call", outcome) EXCEPT !.pre = builder]
  /\ builderUnchanged

\* DocumentBuilder.fromDocument(document): a new builder, then
\* Object.assign(builder.doc, document)
fromDocument(document) ==
  /\ builder' = Some([k \in {"type", "version", "id", "chain_id", "created_at",
                              "parent_hash", "logical_time", "crypto_suite",
                              "payload", "signature"} |->
                        IF k = "created_at" THEN Val(document.created_at)
                        ELSE document[k]])
  /\ last' = Step("fromDocument", "call", "ok")
  /\ builderUnchanged

\* an addField that writes the value whether the key is set or not
addFieldOverwrites(key, value) ==
  /\ builder # Null
  /\ builder' = Some(assign(Val(builder), key, value))
  /\ last' = [Step("addField", "call", "ok")
                EXCEPT !.doc = Some(<<key, value>>), !.pre = builder]
  /\ builderUnchanged

\* addField(key, value)
addField(key, value) ==
  /\ builder # Null
  /\ IF key \in DOMAIN Val(builder) \cup ObjectPrototypeKeys
     THEN /\ builder' = builder
          /\ last' = [Step("addField", "call", "Error")
                        EXCEPT !.doc = Some(<<key, value>>), !.pre = builder]
     ELSE /\ builder' = Some(assign(Val(builder), key, value))
          /\ last' = [Step("addField", "call", "ok")
                        EXCEPT !.doc = Some(<<key, value>>), !.pre = builder]
  /\ builderUnchanged

NextBuilder ==
  \/ newDocumentBuilder
  \/ fromDocument(createdDocument(1))
  \/ \E key \in SetterKeys :
       \E value \in BuilderValues(key) : builderSet(key, value)
  \/ \E isString \in BOOLEAN :
       LET bytes == sign("sig64", serialize(createdDocument(1)), "keyBuf")
       IN  setSignature([isString |-> isString,
                         value |-> IF isString THEN toHex(bytes) ELSE bytes])
  \/ builderBuild
  \/ \E key \in BuilderKeys :
       \E value \in BuilderValues(key) : addField(key, value)
  \/ timePasses

SpecBuilder == Init /\ [][NextBuilder]_vars


(***************************************************************************)
(* utils/rate-limiter  RateLimiter on its own, Date.now() being wallClock. *)
(***************************************************************************)
limiterUnchanged ==
  UNCHANGED <<builder, options, wallClock, rateLimiter, logicalClock,
              identity, keyBuf, mnemonic, chainState, clockRef, ownClock,
              validator, pending, maxReturned, destroyCalled, createFailed,
              imports>>

\* new RateLimiter(config)
newRateLimiter(config) ==
  /\ IF rateLimiterThrows(config)
     THEN /\ last' = Step("new RateLimiter", "call", "ValidationFailed")
          /\ requestLimiter' = requestLimiter
     ELSE /\ last' = Step("new RateLimiter", "call", "ok")
          /\ requestLimiter' = Some([limit    |-> config.limit,
                                     windowMs |-> config.windowMs,
                                     requests |-> <<>>,
                                     granted  |-> <<>>])
  /\ limiterUnchanged

\* a check() that lets one request more than the limit through
limiterCheckAllowsOneMore ==
  /\ requestLimiter # Null
  /\ LET l == Val(requestLimiter)
         now == wallClock
         windowStart == now - l.windowMs
         active == SelectSeq(l.requests, LAMBDA time : time > windowStart)
     IN  IF Len(active) > l.limit
         THEN /\ requestLimiter' = Some([l EXCEPT !.requests = active])
              /\ last' = [Step("check", "call", "ValidationFailed")
                            EXCEPT !.pre = requestLimiter]
         ELSE /\ requestLimiter' =
                   Some([l EXCEPT !.requests = Append(active, now),
                                  !.granted = Append(@, now)])
              /\ last' = [Step("check", "call", "ok")
                            EXCEPT !.pre = requestLimiter]
  /\ limiterUnchanged

\* check()
limiterCheck ==
  /\ requestLimiter # Null
  /\ LET l == Val(requestLimiter)
         now == wallClock
         windowStart == now - l.windowMs
         active == SelectSeq(l.requests, LAMBDA time : time > windowStart)
     IN  IF Len(active) >= l.limit
         THEN /\ requestLimiter' = Some([l EXCEPT !.requests = active])
              /\ last' = [Step("check", "call", "ValidationFailed")
                            EXCEPT !.pre = requestLimiter]
         ELSE /\ requestLimiter' =
                   Some([l EXCEPT !.requests = Append(active, now),
                                  !.granted = Append(@, now)])
              /\ last' = [Step("check", "call", "ok")
                            EXCEPT !.pre = requestLimiter]
  /\ limiterUnchanged

\* reset()
limiterReset ==
  /\ requestLimiter # Null
  /\ requestLimiter' = Some([Val(requestLimiter) EXCEPT !.requests = <<>>,
                                                        !.granted = <<>>])
  /\ last' = Step("reset", "call", "ok")
  /\ limiterUnchanged

NextRate ==
  \/ \E config \in [limit : 0..MaxLimit, windowMs : 0..MaxWallClock] :
       newRateLimiter(config)
  \/ limiterCheck
  \/ limiterReset
  \/ timePasses

SpecRate == Init /\ [][NextRate]_vars


(***************************************************************************)
(* Properties of the facade.                                               *)
(***************************************************************************)

\* the latest step is a createDocument that returned a document
CreateReturned(l) == l.op = "createDocument" /\ l.outcome = "ok"

\* the latest step is a createDocument that threw after the facade was found
\* initialized
CreateThrew(l) ==
  /\ l.op = "createDocument"
  /\ l.outcome \notin {"ok", "pending", "NotInitialized"}

\* documents, last hash and logical clock of a facade snapshot
ChainPart(snap) ==
  [documents    |-> snap.documents,
   lastHash     |-> snap.lastHash,
   logicalClock |-> snap.logicalClock]

\* C1: each successful createDocument (here: one that no other operation
\* overlapped) returns a document whose logical_time is strictly greater than
\* that of every document createDocument returned before on this facade,
\* whatever operations ran between the calls.
C1_LogicalTimeStrictlyIncreases ==
  [][(CreateReturned(last') /\ last'.pre # Null)
       => Val(last'.doc).logical_time > maxReturned]_vars

\* C2: in the chain the facade holds, every document after the first has
\* parent_hash equal to the id of the document appended immediately before it.
C2_ParentHashLinksToPrevious ==
  assertInitialized =>
    \A i \in 2..Len(Val(chainState).documents) :
      Val(chainState).documents[i].parent_hash = Val(chainState).documents[i - 1].id

\* C3: when createDocument fails, documents, last hash and logical clock of
\* the chain state are what they were before the call.
C3_FailedCreateLeavesChainState ==
  (CreateThrew(last) /\ last.pre # Null /\ assertInitialized) =>
    ChainSnap(Val(chainState)) = ChainPart(Val(last.pre))

\* a createDocument that has not completed, and that no other operation has
\* disturbed, has advanced the logical clock of the chain state while
\* documents and last hash are those from before the call
PartialState ==
  /\ assertInitialized
  /\ \E i \in 1..Len(pending) :
       /\ pending[i].pre # Null
       /\ Val(chainState).documents = Val(pending[i].pre).documents
       /\ Val(chainState).lastHash = Val(pending[i].pre).lastHash
       /\ Val(chainState).clock > Val(pending[i].pre).logicalClock

\* C4: in no state in which an operation can be invoked does the chain state
\* show the clock of an uncompleted createDocument advanced without its
\* document appended and last hash updated.
C4_NoOperationObservesPartialState == ~PartialState

\* C5: the chain is linear, no two stored documents share a parent_hash, so
\* the fork scan of detectFork finds nothing.
C5_ChainIsLinear ==
  assertInitialized => scan(Val(chainState).documents) = <<>>

\* C6: after importState of exported bytes, the facade's chain state has the
\* documents, last hash and logical clock the exporting chain state had.
C6_ImportOfExportRestoresChainState ==
  (last.op = "importState" /\ last.outcome = "ok") =>
    ChainSnap(Val(chainState)) = Val(last.snap)

C6_Witness ==
  /\ last.op = "importState"
  /\ last.outcome = "ok"
  /\ Len(Val(chainState).documents) >= 2
  /\ Val(chainState).clock > LOGICAL_TIME_MIN

\* the logical_time the next document is to have: one more than that of the
\* latest document of the chain, or than the clock of an empty chain
nextLogicalTime(snap) ==
  IF snap.documents = <<>>
  THEN snap.logicalClock + 1
  ELSE snap.documents[Len(snap.documents)].logical_time + 1

\* C7: with no failed createDocument so far and no other call overlapping,
\* a successful createDocument returns logical_time exactly one greater than
\* that of the latest document of the chain (than the initial time when the
\* chain is empty), on a fresh facade and after importState.
C7_LogicalTimeIsLatestPlusOne ==
  (CreateReturned(last) /\ last.pre # Null /\ pending = <<>> /\ ~createFailed
     /\ scan(Val(last.pre).documents) = <<>> /\ Val(last.pre).forks = <<>>) =>
    Val(last.doc).logical_time = nextLogicalTime(Val(last.pre))

\* the latest step is an importState that threw after the facade was found
\* initialized
ImportThrew ==
  /\ last.op = "importState"
  /\ last.outcome \notin {"ok", "NotInitialized"}

\* C8: when importState fails, documents, last hash, logical clock and forks
\* of the facade are what they were before the call.
C8_FailedImportLeavesState ==
  ImportThrew => (assertInitialized /\ FacadeSnap = Val(last.pre))

C8_Witness ==
  /\ ImportThrew
  /\ last.outcome = "ValidationFailed"
  /\ Val(chainState).documents # <<>>

\* C9: once destroy has run, the facade stays uninitialized and every
\* operation invoked on it fails with NotInitialized.
C9_DestroyedFacadeStaysUnusable ==
  [][destroyCalled =>
       /\ destroyCalled'
       /\ ~assertInitialized'
       /\ (last'.phase = "call" /\ last'.op # "destroy")
            => last'.outcome = "NotInitialized"]_vars

C9_Witness ==
  /\ destroyCalled
  /\ last.op = "importState"
  /\ last.outcome = "NotInitialized"

\* C10: after destroy, every byte of the buffer that held the private key
\* is zero.
C10_PrivateKeyBufferZeroed ==
  destroyCalled => \A i \in DOMAIN keyBuf : keyBuf[i] = 0

C10_Witness ==
  /\ destroyCalled
  /\ last.op = "destroy"
  /\ Len(keyBuf) = PRIVATE_KEY_LENGTH
  /\ \A i \in DOMAIN keyBuf : keyBuf[i] = 0

(***************************************************************************)
(* Properties of verification.                                             *)
(***************************************************************************)
\* the validator handed back a result: through the facade or called directly
ValidatorReturned ==
  last.op \in {"verifyDocument", "validate"} /\ last.outcome = "ok"

\* C11: verify_document never raises, whatever the document and however the
\* facade was configured: on a facade that was not destroyed every call of
\* it hands back a result.
C11_VerifyDocumentNeverRaises ==
  (last.op = "verifyDocument" /\ ~destroyCalled) => last.outcome = "ok"

\* C16: in every result the validator returns, final is true exactly when
\* structural_valid, cryptographic_valid and policy_valid are all true.
C16_FinalIsConjunctionOfLayers ==
  ValidatorReturned =>
    LET r == Val(last.value)
    IN  r.final <=> (r.structural_valid /\ r.cryptographic_valid
                     /\ r.policy_valid)

\* a result whose first two layers passed and whose policy layer did not
C16_Witness ==
  /\ ValidatorReturned
  /\ Val(last.value).structural_valid
  /\ Val(last.value).cryptographic_valid
  /\ ~Val(last.value).policy_valid
  /\ ~Val(last.value).final

\* the steps of a validation in the order the layers prescribe
LayerOrder ==
  <<"validateStructural", "validateCryptographic", "serialize",
    "assertCanonical", "fromHex", "Ed25519.verify", "validatePolicy",
    "policyEngine.evaluate">>
PlaceOf(step) == CHOOSE k \in 1..Len(LayerOrder) : LayerOrder[k] = step
Steps(ran) == { ran[k] : k \in 1..Len(ran) }

\* C17: the validator runs the structural, cryptographic and policy layers
\* in that order and stops at the first that fails: no signature is verified
\* after a structural failure, and the policy evaluator is not called after
\* a structural or cryptographic failure.
C17_LayersInOrderStopAtFirstFailure ==
  ValidatorReturned =>
    LET r == Val(last.value)
    IN  /\ \A a, b \in 1..Len(r.ran) :
             a < b => PlaceOf(r.ran[a]) < PlaceOf(r.ran[b])
        /\ ~r.structural_valid =>
             Steps(r.ran) \cap {"validateCryptographic", "assertCanonical",
                                "Ed25519.verify", "validatePolicy",
                                "policyEngine.evaluate"} = {}
        /\ ~r.cryptographic_valid =>
             Steps(r.ran) \cap {"validatePolicy", "policyEngine.evaluate"} = {}

\* a policy engine was supplied and a signature that does not verify kept
\* the validator from calling it
C17_Witness ==
  /\ last.op = "validate" /\ last.outcome = "ok"
  /\ Val(last.pre).policyEngine # "none"
  /\ Val(last.value).structural_valid
  /\ ~Val(last.value).cryptographic_valid
  /\ "Ed25519.verify" \in Steps(Val(last.value).ran)
  /\ "policyEngine.evaluate" \notin Steps(Val(last.value).ran)

\* a verifyDocument that handed back a result
VerifyReturned == last.op = "verifyDocument" /\ last.outcome = "ok"

C13_TamperedDocumentFailsCryptographicLayer ==
  (VerifyReturned /\ Val(last.doc) \in RewrittenDocuments) =>
    ~Val(last.value).cryptographic_valid

\* the copy is well-formed, carries a 64-byte signature of the facade's key,
\* and the signature check itself turned it down
C13_Witness ==
  /\ VerifyReturned
  /\ Val(last.doc) \in RewrittenDocuments
  /\ Val(last.doc).signature[2] = 2 * SIGNATURE_LENGTH
  /\ Val(last.value).structural_valid
  /\ "Ed25519.verify" \in Steps(Val(last.value).ran)
  /\ ~Val(last.value).cryptographic_valid

\* C19: when the signing backend hands back a value that is not exactly 64
\* bytes long, createDocument fails with InvalidSignature and the chain is
\* left as it was.
C19_WrongLengthSignatureRejected ==
  [][\A sig \in BackendResults \ {"throws", "sig64"} :
       createDocumentResume(1, sig) =>
         /\ last'.outcome = "InvalidSignature"
         /\ chainState' = chainState]_vars

\* the members of a list
Elements(list) == { list[k] : k \in 1..Len(list) }

\* some entry of a list of fork entries is marked resolved
ResolvedIn(forks) == \E k \in 1..Len(forks) : forks[k].resolved

\* C14: no operation of the facade or of the chain manager produces or
\* stores a fork entry with resolved = true: not in the manager's table
\* after append, reset or import, not in what detect_fork, the forks getter,
\* get_state and get_chain_state return, not in exported bytes.
C14_NoForkMarkedResolved ==
  /\ chainState # Null => ~ResolvedIn(Val(chainState).detectedForks)
  /\ (last.op \in {"detectFork", "forks"} /\ last.outcome = "ok") =>
       ~ResolvedIn(Val(last.value))
  /\ (last.op \in {"getChainState", "getState"} /\ last.outcome = "ok") =>
       ~ResolvedIn(Val(last.value).forks)
  /\ (last.op \in {"exportState", "export"} /\ last.outcome = "ok") =>
       \A k \in 1..Len(Val(last.value).forks) :
         ~Val(last.value).forks[k][2].resolved

\* C15: when two documents of the list handed to scan share a parent_hash,
\* scan returns a fork entry that lists both ids and has resolved = false.
C15_ScanReportsSharedParent ==
  last.op = "scan" =>
    LET docs  == Val(last.doc)
        forks == Val(last.value)
    IN  \A a, b \in 1..Len(docs) :
          (a < b /\ docs[a].parent_hash = docs[b].parent_hash) =>
            \E k \in 1..Len(forks) :
              /\ docs[a].id \in Elements(forks[k].documents)
              /\ docs[b].id \in Elements(forks[k].documents)
              /\ ~forks[k].resolved

\* three documents share a parent and scan returned an entry for them
C15_Witness ==
  /\ last.op = "scan"
  /\ Len(Val(last.doc)) = 3
  /\ \A a \in 1..3 : Val(last.doc)[a].parent_hash = Val(last.doc)[1].parent_hash
  /\ Len(Val(last.value)) = 1

\* C18: on a facade whose chain was built by successful createDocument
\* calls alone, verifyIntegrity() of the chain state returns true.
C18_CreatedChainHasIntegrity ==
  (assertInitialized /\ imports = 0) =>
    verifyIntegrity(Val(chainState)) = "true"

(***************************************************************************)
(* Properties of the logical clock.                                        *)
(***************************************************************************)
\* C20: after any sequence of construction, tick, sync, freeze and unfreeze
\* a logical clock's value is an integer from 1 to the platform's maximum
\* safe integer (LOGICAL_TIME.MAX) inclusive.
C20_ClockValueWithinRange ==
  logicalClock # Null =>
    /\ ~Val(logicalClock).half
    /\ ~Val(logicalClock).nan
    /\ LOGICAL_TIME_MIN <= Val(logicalClock).current
    /\ Val(logicalClock).current <= MaxTime

\* C21: sync(v) succeeds exactly when v is strictly greater than the clock's
\* current value, and then the current value equals v; otherwise it fails
\* with LogicalTimeViolation and the clock is unchanged.
C21_SyncSucceedsExactlyWhenGreater ==
  [][\A v \in Numbers :
       clockSync(v) =>
         IF lessThan(currentOf(Val(logicalClock)), v)
         THEN /\ last'.outcome = "ok"
              /\ currentOf(Val(logicalClock')) = v
         ELSE /\ last'.outcome = "LogicalTimeViolation"
              /\ logicalClock' = logicalClock]_vars

\* the options of the call the latest step made
CreateCalled == last.op = "create" /\ last.pre # Null
createOptions == Val(last.pre)

\* C22: constructing a logical clock with an initial value that is zero,
\* negative or not an integer fails with LogicalTimeViolation, also when the
\* facade constructs it from options.initialTime; only an absent initialTime
\* defaults to 1.
C22_FacadeRejectsBadInitialTime ==
  CreateCalled =>
    LET initialTime == createOptions.initialTime
    IN  IF initialTime = Null
        THEN last.outcome # "LogicalTimeViolation"
        ELSE (\/ Val(initialTime).nan
              \/ Val(initialTime).half
              \/ Val(initialTime).n <= 0)
             => last.outcome = "LogicalTimeViolation"

\* C24: when creation fails after the identity has been derived, destroy has
\* run before the error reaches the caller: the private key buffer is all
\* zero, the instance holds no identity, chain state, clock or validator, and
\* the error is the one the failing step threw.
C24_FailedCreateDestroys ==
  (CreateCalled /\ last.outcome # "ok") =>
    /\ Len(keyBuf) = PRIVATE_KEY_LENGTH
    /\ \A i \in DOMAIN keyBuf : keyBuf[i] = 0
    /\ identity = Null
    /\ chainState = Null
    /\ clockRef = "null"
    /\ validator = Null
    /\ last.outcome =
         IF constructorThrows(orOne(createOptions.initialTime))
         THEN "LogicalTimeViolation" ELSE "ValidationFailed"

C24_Witness ==
  /\ CreateCalled
  /\ last.outcome = "ValidationFailed"
  /\ createOptions.rateLimit # Null
  /\ keyBuf = fill0(keyBuf)
  /\ Len(keyBuf) = PRIVATE_KEY_LENGTH

\* C23: when an id is derived for a logical time larger than 2^32 - 1, an
\* error is surfaced instead of an id being derived from the value.
C23_LargeLogicalTimeSurfacesError ==
  (last.op = "deriveDocumentId" /\ Val(last.pre).logicalTime > Uint32Range - 1)
    => last.outcome # "ok"

\* documents, last hash, fork table and clock of a manager
ManagerPart(mgr) ==
  [documents     |-> mgr.documents,
   lastHash      |-> mgr.lastHash,
   detectedForks |-> mgr.detectedForks,
   clock         |-> mgr.clock]

\* C25: ChainStateManager.append is all-or-nothing: when it raises (chain id
\* mismatch, or the clock tick failing on a frozen clock or at the maximum),
\* the document table, last hash, fork table and clock are as before.
C25_FailedAppendLeavesManager ==
  [][(last'.op = "append" /\ last'.outcome # "ok")
       => ManagerPart(Val(chainState')) = ManagerPart(Val(chainState))]_vars

\* C26: at every operation boundary the facade's clock and the chain
\* manager's clock hold the same value, so that the logical clock
\* get_chain_state reports is the logical_time of the document created last.
C26_FacadeAndManagerClocksAgree ==
  (assertInitialized /\ pending = <<>>) =>
    /\ clockCurrent = Val(chainState).clock
    /\ CreateReturned(last) =>
         getState(Val(chainState)).logicalClock = Val(last.doc).logical_time

\* the fork list a manager reports (forks, getState().forks)
ReportedForks(mgr) == forksGetter(mgr).detectedForks

\* C27: after any sequence of append, reset and import the fork list the
\* manager reports is the result of a fresh group-by-parent_hash scan over
\* the documents it stores; a cached table is never served after the
\* documents have changed.
C27_ReportedForksAreFreshScan ==
  LET mgr == Val(chainState)
  IN  /\ ReportedForks(mgr) = rebuildForkCache(mgr.documents)
      /\ getState(mgr).forks = rebuildForkCache(mgr.documents)
      /\ Elements(ReportedForks(mgr)) = Elements(scan(mgr.documents))
      /\ last.op = "forks" =>
           Val(last.value) = rebuildForkCache(mgr.documents)

C27_Witness ==
  /\ last.op = "forks"
  /\ Len(Val(last.value)) > 0
  /\ Len(Val(chainState).documents) > 2

\* C28: at every operation boundary last_hash is the id of the document
\* appended last, or the zero hash when the chain holds no documents: an
\* append that stores its document sets it to that document's id, reset sets
\* it to the zero hash, import of bytes a manager exported takes it with the
\* documents from that manager, import of any other bytes leaves it the
\* zero hash or the id of a document the manager holds under that id, and
\* nothing else changes it or the documents.
C28_LastHashIsLatestAppended ==
  [][LET before == Val(chainState)
         after == Val(chainState')
     IN  /\ after.documents = <<>> => after.lastHash = ZeroHash
         /\ IF last'.op = "append"
            THEN IF last'.outcome = "ValidationFailed"
                 THEN ChainSnap(after) = ChainSnap(before)
                 ELSE /\ after.lastHash = Val(last'.doc).id
                      /\ getDocument(after, after.lastHash) = last'.doc
            ELSE IF last'.op = "reset"
            THEN after.lastHash = ZeroHash /\ after.documents = <<>>
            ELSE IF last'.op = "import" /\ last'.outcome = "ok"
            THEN IF last'.snap # Null
                 THEN /\ after.lastHash = Val(last'.snap).lastHash
                      /\ after.documents = Val(last'.snap).documents
                 ELSE \* bytes that export did not write
                      IF after.documents = <<>>
                      THEN after.lastHash = ZeroHash
                      ELSE /\ getDocument(after, after.lastHash) # Null
                           /\ Val(getDocument(after, after.lastHash)).id
                                = after.lastHash
            ELSE /\ after.lastHash = before.lastHash
                 /\ after.documents = before.documents]_vars

\* C29: the chain is append-only: a document stored by append stays in the
\* chain unchanged and retrievable by its id; no later append replaces or
\* removes it.
C29_AppendKeepsStoredDocuments ==
  [][last'.op = "append" =>
       \A i \in 1..Len(Val(chainState).documents) :
         getDocument(Val(chainState'), Val(chainState).documents[i].id)
           = Some(Val(chainState).documents[i])]_vars

\* the fork entries of exported state bytes
BlobForks(data) == [i \in 1..Len(data.forks) |-> data.forks[i][2]]

\* C30: export followed by import preserves the fork table: the forks the
\* imported manager reports are, field for field, the forks of the exported
\* bytes, which are the forks the exporting manager reported at export time.
C30_ImportedForksAreExportedForks ==
  (last.op = "import" /\ last.outcome = "ok" /\ last.pre # Null) =>
    /\ ReportedForks(Val(chainState)) = BlobForks(Val(last.value))
    /\ BlobForks(Val(last.value)) = Val(last.pre)

\* positions of the stored documents whose parent_hash is h
StoredChildren(mgr, h) ==
  { i \in 1..Len(mgr.documents) : mgr.documents[i].parent_hash = h }

\* the fork table of after holds, under the parent of document, the entry
\* for that parent: the ids of the documents before stored under that
\* parent, then the id of document, detected at the value of before's clock,
\* unresolved
ForkRecorded(before, after, document) ==
  /\ IndexOfKey(after.forkKeys, document.parent_hash) # 0
  /\ LET k == IndexOfKey(after.forkKeys, document.parent_hash)
     IN
       LET entry == after.detectedForks[k]
           n == Cardinality(StoredChildren(before, document.parent_hash))
       IN  /\ entry.parentHash = document.parent_hash
           /\ Len(entry.documents) = n + 1
           /\ entry.documents[n + 1] = document.id
           /\ \A i \in StoredChildren(before, document.parent_hash) :
                \E j \in 1..n : entry.documents[j] = before.documents[i].id
           /\ entry.detectedAt = before.clock
           /\ entry.resolved = FALSE

\* the step is an append of a document whose parent_hash differs from
\* last_hash while a stored document has that parent_hash
AppendOnSharedParent ==
  /\ last'.op = "append"
  /\ Val(last'.doc).parent_hash # Val(chainState).lastHash
  /\ StoredChildren(Val(chainState), Val(last'.doc).parent_hash) # {}

\* C31: when append receives a document whose parent_hash differs from
\* last_hash and a stored document has the same parent_hash, the fork table
\* afterwards holds an entry for that parent listing the ids of all those
\* stored documents and the new id, with detected_at the clock's value at
\* detection and resolved = false.  The document is one of the manager's
\* chain: append rejects any other in its first step, before it looks at the
\* parent hash.
C31_AppendRecordsFork ==
  [][(AppendOnSharedParent
      /\ Val(last'.doc).chain_id = Val(chainState).chainId) =>
       ForkRecorded(Val(chainState), Val(chainState'), Val(last'.doc))]_vars

C31_Witness ==
  /\ last.op = "append"
  /\ Len(Val(chainState).detectedForks) = 1
  /\ Len(Val(chainState).detectedForks[1].documents) = 3
  /\ Val(chainState).detectedForks[1].documents[3] = Val(last.doc).id
  /\ ~Val(chainState).forkCacheValid

\* the latest step is a direct validate whose document passed the structural
\* and the cryptographic layer
PassedTwoLayers ==
  /\ last.op = "validate"
  /\ last.outcome = "ok"
  /\ Val(last.value).structural_valid
  /\ Val(last.value).cryptographic_valid

\* C32: for a document that passed the first two layers, a policy evaluator
\* that throws or reports failure gives policy_valid = false and
\* final = false, with an error recorded when it threw; with no evaluator
\* policy_valid is true.
C32_PolicyLayerFollowsEvaluator ==
  PassedTwoLayers =>
    LET r == Val(last.value)
        e == Val(last.pre).policyEngine
    IN  /\ e = "deny" => (~r.policy_valid /\ ~r.final)
        /\ e = "throws" =>
             /\ ~r.policy_valid
             /\ ~r.final
             /\ "Policy evaluation error" \in Elements(r.errors)
        /\ e = "none" => r.policy_valid

C32_Witness ==
  /\ PassedTwoLayers
  /\ Val(last.pre).policyEngine = "throws"
  /\ Val(last.value).errors = <<"Policy evaluation error">>


\* C33: when the facade was created with a policy evaluator in its options
\* that rejects every document, verifyDocument of a document that passes the
\* structural and cryptographic layers gives policy_valid = false and
\* final = false.
C33_FacadeAppliesPolicyOption ==
  (/\ last.op = "verifyDocument"
   /\ last.outcome = "ok"
   /\ options.policyEngine = Some("deny")
   /\ Val(last.value).structural_valid
   /\ Val(last.value).cryptographic_valid)
    => (/\ ~Val(last.value).policy_valid
        /\ ~Val(last.value).final)


\* the branch ids of a fork that are the id of a current document or the
\* parent_hash of one
BranchesAlive(fork, currentDocuments) ==
  { b \in { fork.documents[i] : i \in DOMAIN fork.documents } :
      \E j \in DOMAIN currentDocuments :
        \/ currentDocuments[j].id = b
        \/ currentDocuments[j].parent_hash = b }

\* C34: isForkActive(fork, currentDocuments) is true exactly when more than
\* one branch document of the fork is present in, or referenced as a parent
\* by, the current documents.
C34_ActiveIffSeveralBranchesAlive ==
  last.op = "isForkActive"
    => Val(last.value) =
         (Cardinality(BranchesAlive(Val(last.pre), Val(last.doc))) > 1)


\* C35: validate gives structural_valid = false for every document whose
\* logical_time is not an integer greater than or equal to 1, numbers that
\* are not integers included.
C35_StructuralRejectsNonIntegerTime ==
  (/\ last.op \in {"validate", "verifyDocument"}
   /\ last.outcome = "ok"
   /\ last.doc # Null
   /\ \/ Val(last.doc).logical_time_type # "number"
      \/ Val(last.doc).logical_time < 1
      \/ Val(last.doc).logical_time_half)
    => ~Val(last.value).structural_valid


\* C36: freeze sets the frozen state and unfreeze ends it; while the clock is
\* frozen every tick fails with LogicalTimeViolation and leaves the clock as
\* it was; on a clock that is not frozen and whose value is below
\* LOGICAL_TIME.MAX, tick succeeds and the value is one more than before.
C36_FrozenClockRefusesTick ==
  [][/\ clockFreeze => Val(logicalClock').frozen
     /\ clockUnfreeze => ~Val(logicalClock').frozen
     /\ clockTick =>
          IF Val(logicalClock).frozen
          THEN /\ last'.outcome = "LogicalTimeViolation"
               /\ logicalClock' = logicalClock
          ELSE lessThan(currentOf(Val(logicalClock)),
                        [n |-> MaxTime, half |-> FALSE, nan |-> FALSE])
                 => /\ last'.outcome = "ok"
                    /\ Val(logicalClock') =
                         [Val(logicalClock) EXCEPT !.current = @ + 1]]_vars

\* a tick refused on a frozen clock whose value is below the maximum
C36_Witness ==
  /\ last.op = "tick"
  /\ last.outcome = "LogicalTimeViolation"
  /\ logicalClock # Null
  /\ Val(logicalClock).frozen
  /\ ~Val(logicalClock).nan
  /\ Val(logicalClock).current < MaxTime

\* C37: while a logical clock is frozen no operation changes its value: sync
\* is refused with LogicalTimeViolation until unfreeze.
C37_FrozenClockRefusesSync ==
  (/\ last.op = "sync"
   /\ logicalClock # Null
   /\ Val(logicalClock).frozen)
    => last.outcome = "LogicalTimeViolation"


\* C38: addField(key, value) on a builder that already holds the key, the
\* defaults set at construction included, fails and leaves every field of
\* the builder as it was.
C38_AddFieldNeverOverwrites ==
  (/\ last.op = "addField"
   /\ Val(last.doc)[1] \in DOMAIN Val(last.pre))
    => /\ last.outcome = "Error"
       /\ builder = last.pre

\* addField refused for a default that the constructor set
C38_Witness ==
  /\ last.op = "addField"
  /\ last.outcome = "Error"
  /\ Val(last.doc)[1] = "version"
  /\ Val(builder)["version"] = DOCUMENT_VERSION
  /\ Val(last.doc)[2] # DOCUMENT_VERSION


\* the document createDocument returns for the fields of d when the wall
\* clock reads now
ReturnedAt(d, now) ==
  LET b == builtDocument(d.chain_id, d.parent_hash, d.logical_time, d.type,
                         d.payload, now)
  IN  signed(b, sign("sig64", serialize(b), Val(identity).privateKey))

\* C39: createDocument does not depend on the wall clock: the document it
\* returns, signature included, is the one a facade in the same state, given
\* the same type and payload, returns at wall-clock time 0.
C39_CreateIgnoresWallClock ==
  (/\ last.op = "createDocument"
   /\ last.phase = "resume"
   /\ last.outcome = "ok")
    => Val(last.doc) = ReturnedAt(Val(last.doc), 0)


\* the successful check() calls of the limiter whose time is in the set
GrantedIn(times) ==
  Cardinality({ i \in DOMAIN Val(requestLimiter).granted :
                  Val(requestLimiter).granted[i] \in times })

\* C40 as stated: in every interval [t, t + windowMs], both ends included, at
\* most limit calls to check() succeed.
C40_Original ==
  requestLimiter # Null =>
    \A t \in 0..MaxWallClock :
      GrantedIn(t..(t + Val(requestLimiter).windowMs))
        <= Val(requestLimiter).limit

\* C40: since construction or the latest reset(), at most limit calls to
\* check() succeed at times later than t - windowMs and up to t, for every
\* t; a call that finds limit such requests recorded fails with
\* ValidationFailed and is not recorded as a request.
C40_AtMostLimitPerWindow ==
  /\ requestLimiter # Null =>
       \A t \in 0..MaxWallClock :
         GrantedIn((t - Val(requestLimiter).windowMs + 1)..t)
           <= Val(requestLimiter).limit
  /\ (last.op = "check" /\ last.outcome = "ValidationFailed") =>
       /\ Len(Val(requestLimiter).requests) = Val(requestLimiter).limit
       /\ Len(Val(requestLimiter).requests) <= Len(Val(last.pre).requests)
       /\ Val(requestLimiter).granted = Val(last.pre).granted
  /\ (last.op = "check" /\ last.outcome = "ok") =>
       Len(Val(requestLimiter).requests) <= Val(requestLimiter).limit

\* a check() refused after time has passed, a request of an earlier
\* millisecond still being inside the window
C40_Witness ==
  /\ last.op = "check"
  /\ last.outcome = "ValidationFailed"
  /\ Val(requestLimiter).limit > 1
  /\ Val(requestLimiter).requests[1] < wallClock

=============================================================================
